---- MODULE Spec2Model ----
(***************************************************************************)
(* Solana Ghost-Code Detective: the scan pipeline (scanCommand and         *)
(* ProgramScanner.scan), the risk scorer (GhostDetector), the authority    *)
(* tracker (AuthorityTracker), the graph builder (GraphBuilder), the       *)
(* classifier (PDADetector), the activity lookups of SolanaRPCClient and   *)
(* the report writer (ReportGenerator, reportCommand) and the web UI that  *)
(* loads a written report (App, FileUploader, Dashboard).                  *)
(*                                                                         *)
(* Spec takes each awaited call of the scan as one step.  SpecScan takes   *)
(* the two fan-outs promise by promise: Promise.all over analyzePDA, and   *)
(* the batches, lookups and delays of batchGetAccountActivities.           *)
(*                                                                         *)
(* Number representation.  The code computes with IEEE doubles; the model  *)
(* computes exactly, in fixed point:                                       *)
(*   - a configured weight w is held as the integer 100 * w;               *)
(*   - a score is held in micro-points (Scale per point), rounded down,    *)
(*     which preserves every comparison with a whole number of             *)
(*     micro-points;                                                       *)
(*   - a lamport amount is held as a count of LamportUnit lamports (the    *)
(*     largest unit dividing 890,880, 2,000,000 and 10^10), so that 10 SOL *)
(*     fits the integers of the model checker;                             *)
(*   - a SOL amount (lamports / 1e9) is held as the fraction num / den     *)
(*     with den = UnitsPerSOL.                                             *)
(* An optional number (lastWriteSlot?) is Undefined when absent; an        *)
(* optional object (seeds?, riskProfile?, a null result) is a sequence of  *)
(* length 0 or 1.                                                          *)
(***************************************************************************)
EXTENDS Integers, Sequences, FiniteSets, TLC

VARIABLES
    pc,               \* position of scanCommand
    config,           \* config.json and the command-line options
    currentSlot,      \* scanner.scan(): currentSlot
    rawAccounts,      \* scanner.scan(): rawAccounts
    accounts,         \* scanner.scan(): classified accounts
    activities,       \* scanner.scan(): address -> last activity
    enrichedAccounts, \* scanCommand: enrichedAccounts
    riskProfiles,     \* scanCommand: riskProfiles
    authorities,      \* scanCommand: authorities
    graph,            \* scanCommand: graph
    filteredGraph,    \* scanCommand: filteredGraph (0 or 1 graphs)
    summary,          \* scanCommand: summary (0 or 1 summaries)
    scanResult,       \* scanCommand: scanResult (0 or 1 results)
    report,           \* the report file written by generateReport (0 or 1)
    failure,          \* what the catch block of scanCommand received
    legacyAuthorities,\* result of detectLegacyAuthorities (0 or 1 lists)
    chains,           \* result of buildAuthorityChains (0 or 1 lists)
    pda,              \* batchAnalyzePDAs: the analyzePDA promises of Promise.all
    rpc,              \* batchGetAccountActivities: locals and lookups in flight
    ui                \* web UI: App's scanResult, FileUploader's error, reads in flight

vars == << pc, config, currentSlot, rawAccounts, accounts, activities,
           enrichedAccounts, riskProfiles, authorities, graph, filteredGraph,
           summary, scanResult, report, failure, legacyAuthorities, chains,
           pda, rpc, ui >>

----------------------------------------------------------------------------
(* Bounds and representation *)

MaxAccounts == 2
MaxSlot == 6
MaxGraphAccounts == 3
MaxGraphEdges == 2
MaxRelationships == 3
MaxDepth == 3
MaxBatch == 2
MaxGraphAuthorities == 2
MaxBatches == 4
MaxReaders == 2

Scale == 10^6
LamportUnit == (2^7) * 5
UnitsPerSOL == (10^9) \div LamportUnit
Undefined == 0 - 1

Min(a, b) == IF a <= b THEN a ELSE b
Max(a, b) == IF a >= b THEN a ELSE b

minRentExemption == 890880 \div LamportUnit

ProgramId == "PROG"
AddrSeq == << "A1", "A2", "A3", "A4", "A5" >>
External == "X1"

----------------------------------------------------------------------------
(* GhostDetector *)

\* !account.lastWriteSlot : undefined and 0 are both falsy
NoLastWriteSlot(account) ==
    account.lastWriteSlot = Undefined \/ account.lastWriteSlot = 0

checkInactivity(det, account) ==
    IF NoLastWriteSlot(account)
    THEN << [type |-> "inactivity", weight |-> det.weights.inactivity * Scale] >>
    ELSE IF det.currentSlot - account.lastWriteSlot > det.inactiveSlotThreshold
         THEN << [type |-> "inactivity", weight |-> det.weights.inactivity * Scale] >>
         ELSE << >>

checkOrphanedPDA(det, account) ==
    IF ~account.isPDA
    THEN << >>
    ELSE IF account.seeds = << >> \/ Len(account.seeds[1]) = 0
         THEN << [type |-> "orphaned_pda", weight |-> det.weights.orphanedPda * Scale] >>
         ELSE << >>

\* weights.rentRecoverable * Math.min(100, recoverableSOL * 10), in micro-points:
\* (W/100) * min(10^8, units * LamportUnit / 10^2) = W * min(64 * cap, 64 * units) / 1000
RentWeight(W, units) ==
    LET capUnits == 10 * UnitsPerSOL
        m == (LamportUnit \div 10) * Min(capUnits, units)
        q == m \div 1000
        r == m % 1000
    IN  W * q + ((W * r) \div 1000)

\* recoverableAmount / 1e7 in place of / 1e9
checkRentRecoverablePer1e7(det, account, minRentExemptBalance) ==
    LET recoverableAmount == account.lamports - minRentExemptBalance
    IN  IF recoverableAmount > 0
        THEN << [type |-> "rent_recoverable",
                 weight |-> RentWeight(det.weights.rentRecoverable, recoverableAmount * 100)] >>
        ELSE << >>

checkRentRecoverable(det, account, minRentExemptBalance) ==
    LET recoverableAmount == account.lamports - minRentExemptBalance
    IN  IF recoverableAmount > 0
        THEN << [type |-> "rent_recoverable",
                 weight |-> RentWeight(det.weights.rentRecoverable, recoverableAmount)] >>
        ELSE << >>

\* the tests taken from the bottom: medium first
determineRiskLevelBottomUp(det, confidenceScore) ==
    IF confidenceScore < det.thresholds.medium * Scale THEN "Low"
    ELSE IF confidenceScore < det.thresholds.high * Scale THEN "Medium"
    ELSE IF confidenceScore < det.thresholds.critical * Scale THEN "High"
    ELSE "Critical"

determineRiskLevel(det, confidenceScore) ==
    IF confidenceScore >= det.thresholds.critical * Scale THEN "Critical"
    ELSE IF confidenceScore >= det.thresholds.high * Scale THEN "High"
    ELSE IF confidenceScore >= det.thresholds.medium * Scale THEN "Medium"
    ELSE "Low"

SOL(units) == [num |-> units, den |-> UnitsPerSOL]

\* without the riskLevel test
calculateRecoverableSOLAnyLevel(account, minRentExemptBalance, riskLevel) ==
    SOL(Max(0, account.lamports - minRentExemptBalance))

calculateRecoverableSOL(account, minRentExemptBalance, riskLevel) ==
    IF riskLevel = "High" \/ riskLevel = "Critical"
    THEN SOL(Max(0, account.lamports - minRentExemptBalance))
    ELSE SOL(0)

RECURSIVE SumWeights(_)
SumWeights(indicators) ==
    IF indicators = << >> THEN 0
    ELSE indicators[1].weight + SumWeights(Tail(indicators))

\* with a fourth indicator that spends weights.authorityMismatch
generateRiskProfileWithAuthorityMismatch(det, account, minRentExemptBalance) ==
    LET mismatch == IF account.owner # account.pubkey
                    THEN << [type |-> "authority_mismatch",
                             weight |-> det.weights.authorityMismatch * Scale] >>
                    ELSE << >>
        indicators == checkInactivity(det, account)
                      \o mismatch
                      \o checkOrphanedPDA(det, account)
                      \o checkRentRecoverable(det, account, minRentExemptBalance)
        totalWeight == SumWeights(indicators)
        confidenceScore == Min(100 * Scale, totalWeight)
        riskLevel == determineRiskLevel(det, confidenceScore)
    IN  [pubkey |-> account.pubkey,
         riskLevel |-> riskLevel,
         confidenceScore |-> confidenceScore,
         indicators |-> indicators,
         estimatedRecoverableSOL |->
             calculateRecoverableSOL(account, minRentExemptBalance, riskLevel)]

\* Math.max in place of Math.min
generateRiskProfileMax(det, account, minRentExemptBalance) ==
    LET indicators == checkInactivity(det, account)
                      \o checkOrphanedPDA(det, account)
                      \o checkRentRecoverable(det, account, minRentExemptBalance)
        totalWeight == SumWeights(indicators)
        confidenceScore == Max(100 * Scale, totalWeight)
        riskLevel == determineRiskLevel(det, confidenceScore)
    IN  [pubkey |-> account.pubkey,
         riskLevel |-> riskLevel,
         confidenceScore |-> confidenceScore,
         indicators |-> indicators,
         estimatedRecoverableSOL |->
             calculateRecoverableSOL(account, minRentExemptBalance, riskLevel)]

generateRiskProfile(det, account, minRentExemptBalance) ==
    LET indicators == checkInactivity(det, account)
                      \o checkOrphanedPDA(det, account)
                      \o checkRentRecoverable(det, account, minRentExemptBalance)
        totalWeight == SumWeights(indicators)
        confidenceScore == Min(100 * Scale, totalWeight)
        riskLevel == determineRiskLevel(det, confidenceScore)
    IN  [pubkey |-> account.pubkey,
         riskLevel |-> riskLevel,
         confidenceScore |-> confidenceScore,
         indicators |-> indicators,
         estimatedRecoverableSOL |->
             calculateRecoverableSOL(account, minRentExemptBalance, riskLevel)]

analyzeAccounts(det, accs, minRentExemptBalance) ==
    [i \in 1..Len(accs) |-> generateRiskProfile(det, accs[i], minRentExemptBalance)]

GhostDetector(slot, inactiveSlotThreshold, weights, thresholds) ==
    [currentSlot |-> slot, inactiveSlotThreshold |-> inactiveSlotThreshold,
     weights |-> weights, thresholds |-> thresholds]

----------------------------------------------------------------------------
(* AuthorityTracker *)

Pubkeys(accs) == { accs[i].pubkey : i \in 1..Len(accs) }

RECURSIVE FlatMap(_, _, _)
\* accounts.forEach(account => relationships.push(...)) : Op(account) is the
\* list pushed for one account
FlatMap(Op(_), xs, i) ==
    IF i > Len(xs) THEN << >> ELSE Op(xs[i]) \o FlatMap(Op, xs, i + 1)

\* without the account.owner !== account.pubkey test
RelationshipsOfSelfOwned(programId, account) ==
    << [account |-> account.pubkey, authority |-> account.owner,
        privilege |-> "owner", isActive |-> TRUE] >>
    \o
    (IF account.isPDA /\ account.seeds # << >>
     THEN << [account |-> account.pubkey, authority |-> programId,
              privilege |-> "signer", isActive |-> TRUE] >>
     ELSE << >>)

RelationshipsOf(programId, account) ==
    (IF account.owner # account.pubkey
     THEN << [account |-> account.pubkey, authority |-> account.owner,
              privilege |-> "owner", isActive |-> TRUE] >>
     ELSE << >>)
    \o
    (IF account.isPDA /\ account.seeds # << >>
     THEN << [account |-> account.pubkey, authority |-> programId,
              privilege |-> "signer", isActive |-> TRUE] >>
     ELSE << >>)

buildAuthorityRelationships(programId, accs) ==
    LET Op(a) == RelationshipsOf(programId, a)
    IN  FlatMap(Op, accs, 1)

RECURSIVE Filter(_, _, _)
\* Array.prototype.filter
Filter(Keep(_), xs, i) ==
    IF i > Len(xs) THEN << >>
    ELSE (IF Keep(xs[i]) THEN << xs[i] >> ELSE << >>) \o Filter(Keep, xs, i + 1)

\* without the rel.authority !== this.programId test
detectLegacyAuthoritiesNoProgramCheck(programId, relationships, accs) ==
    LET accountPubkeys == Pubkeys(accs)
        Keep(rel) == rel.authority \notin accountPubkeys
    IN  Filter(Keep, relationships, 1)

detectLegacyAuthorities(programId, relationships, accs) ==
    LET accountPubkeys == Pubkeys(accs)
        Keep(rel) == rel.authority \notin accountPubkeys /\ rel.authority # programId
    IN  Filter(Keep, relationships, 1)

Includes(chain, a) == \E i \in 1..Len(chain) : chain[i] = a

RECURSIVE buildChain(_, _, _, _, _)
RECURSIVE buildChainEach(_, _, _, _, _, _)
\* authorities.forEach without the chain.includes test
buildChainEachRevisits(relationships, maxDepth, auths, i, chain, depth) ==
    IF i > Len(auths) THEN << >>
    ELSE buildChain(relationships, maxDepth, auths[i].authority,
                    Append(chain, auths[i].authority), depth + 1)
         \o buildChainEach(relationships, maxDepth, auths, i + 1, chain, depth)

\* the chains pushed by buildChain(current, chain, depth), in push order
buildChain(relationships, maxDepth, current, chain, depth) ==
    IF depth >= maxDepth THEN << chain >>
    ELSE LET Keep(rel) == rel.account = current /\ rel.privilege = "owner"
             auths == Filter(Keep, relationships, 1)
         IN  IF Len(auths) = 0 THEN << chain >>
             ELSE buildChainEach(relationships, maxDepth, auths, 1, chain, depth)

\* authorities.forEach(auth => ...)
buildChainEach(relationships, maxDepth, auths, i, chain, depth) ==
    IF i > Len(auths) THEN << >>
    ELSE (IF ~Includes(chain, auths[i].authority)
          THEN buildChain(relationships, maxDepth, auths[i].authority,
                          Append(chain, auths[i].authority), depth + 1)
          ELSE << >>)
         \o buildChainEach(relationships, maxDepth, auths, i + 1, chain, depth)

buildAuthorityChains(startAccount, relationships, maxDepth) ==
    buildChain(relationships, maxDepth, startAccount, << startAccount >>, 0)

----------------------------------------------------------------------------
(* GraphBuilder *)

RiskLookup(profiles, pubkey) ==
    \* new Map(riskProfiles.map(p => [p.pubkey, p])).get(pubkey): the last
    \* profile with that key, or undefined
    LET idx == { i \in 1..Len(profiles) : profiles[i].pubkey = pubkey }
    IN  IF idx = {} THEN << >>
        ELSE << profiles[CHOOSE i \in idx : \A j \in idx : j <= i] >>

buildNodes(programId, accs, profiles) ==
    << [id |-> programId, type |-> "program", riskProfile |-> << >>] >>
    \o [i \in 1..Len(accs) |->
          [id |-> accs[i].pubkey,
           type |-> IF accs[i].isPDA THEN "pda" ELSE "account",
           riskProfile |-> RiskLookup(profiles, accs[i].pubkey)]]

\* without the auth.authority !== this.programId test
buildEdgesWithProgramAuthority(programId, accs, auths) ==
    LET Owns(a) == IF a.owner = programId
                   THEN << [source |-> programId, target |-> a.pubkey,
                            relationship |-> "owns", isActive |-> TRUE] >>
                   ELSE << >>
        Derived(a) == IF a.isPDA /\ a.seeds # << >>
                      THEN << [source |-> programId, target |-> a.pubkey,
                               relationship |-> "derived_from", isActive |-> TRUE] >>
                      ELSE << >>
        Auth(r) == IF r.privilege = "owner"
                   THEN << [source |-> r.authority, target |-> r.account,
                            relationship |-> "authority", isActive |-> r.isActive] >>
                   ELSE << >>
    IN  FlatMap(Owns, accs, 1) \o FlatMap(Derived, accs, 1) \o FlatMap(Auth, auths, 1)

buildEdges(programId, accs, auths) ==
    LET Owns(a) == IF a.owner = programId
                   THEN << [source |-> programId, target |-> a.pubkey,
                            relationship |-> "owns", isActive |-> TRUE] >>
                   ELSE << >>
        Derived(a) == IF a.isPDA /\ a.seeds # << >>
                      THEN << [source |-> programId, target |-> a.pubkey,
                               relationship |-> "derived_from", isActive |-> TRUE] >>
                      ELSE << >>
        Auth(r) == IF r.privilege = "owner" /\ r.authority # programId
                   THEN << [source |-> r.authority, target |-> r.account,
                            relationship |-> "authority", isActive |-> r.isActive] >>
                   ELSE << >>
    IN  FlatMap(Owns, accs, 1) \o FlatMap(Derived, accs, 1) \o FlatMap(Auth, auths, 1)

buildGraph(programId, slot, accs, profiles, auths) ==
    [nodes |-> buildNodes(programId, accs, profiles),
     edges |-> buildEdges(programId, accs, auths),
     programId |-> programId,
     currentSlot |-> slot]

\* a.riskProfile?.confidenceScore || 0
NodeScore(n) ==
    IF n.riskProfile = << >> THEN 0 ELSE n.riskProfile[1].confidenceScore

RECURSIVE InsertByScoreUnstable(_, _)
\* a sort that does not keep the order of equal scores
InsertByScoreUnstable(sorted, n) ==
    IF sorted = << >> THEN << n >>
    ELSE IF NodeScore(sorted[1]) > NodeScore(n)
         THEN << sorted[1] >> \o InsertByScoreUnstable(Tail(sorted), n)
         ELSE << n >> \o sorted

RECURSIVE InsertByScore(_, _)
\* insert n after every node whose score is >= its own (stable, descending)
InsertByScore(sorted, n) ==
    IF sorted = << >> THEN << n >>
    ELSE IF NodeScore(sorted[1]) >= NodeScore(n)
         THEN << sorted[1] >> \o InsertByScore(Tail(sorted), n)
         ELSE << n >> \o sorted

RECURSIVE SortByScoreDesc(_, _)
\* otherNodes.sort((a, b) => scoreB - scoreA) : Array.prototype.sort is stable
SortByScoreDesc(xs, i) ==
    IF i = 0 THEN << >> ELSE InsertByScore(SortByScoreDesc(xs, i - 1), xs[i])

\* Array.prototype.slice(0, end) : a negative end counts from the end
Slice0(xs, end) ==
    LET e == IF end < 0 THEN Max(0, Len(xs) + end) ELSE Min(end, Len(xs))
    IN  SubSeq(xs, 1, e)

NodeIds(nodes) == { nodes[i].id : i \in 1..Len(nodes) }

FilteredGraph(g, maxNodes) ==
    LET IsProgram(n) == n.type = "program"
        NotProgram(n) == n.type # "program"
        programNode == Filter(IsProgram, g.nodes, 1)[1]
        otherNodes == LET o == Filter(NotProgram, g.nodes, 1)
                      IN  SortByScoreDesc(o, Len(o))
        selectedNodes == << programNode >> \o Slice0(otherNodes, maxNodes - 1)
        selectedNodeIds == NodeIds(selectedNodes)
        Sel(e) == e.source \in selectedNodeIds /\ e.target \in selectedNodeIds
    IN  [g EXCEPT !.nodes = selectedNodes, !.edges = Filter(Sel, g.edges, 1)]

\* graph.nodes.length < maxNodes in place of <=
filterGraphForVisualizationStrict(g, maxNodes) ==
    IF Len(g.nodes) < maxNodes THEN g ELSE FilteredGraph(g, maxNodes)

filterGraphForVisualization(g, maxNodes) ==
    IF Len(g.nodes) <= maxNodes THEN g ELSE FilteredGraph(g, maxNodes)

\* the argument after the call: graph.nodes.filter(...) makes a new array and
\* .sort(...) sorts that array in place, so graph.nodes is left as it was
\* (sorting graph.nodes itself would reorder the argument)
NodesAfterFilterSortedInPlace(g, maxNodes) ==
    IF Len(g.nodes) <= maxNodes THEN g.nodes
    ELSE SortByScoreDesc(g.nodes, Len(g.nodes))

NodesAfterFilter(g, maxNodes) == g.nodes

----------------------------------------------------------------------------
(* PDADetector; PublicKey.isOnCurve and PublicKey.findProgramAddress are    *)
(* the library's: a fixed table stands for the hash                         *)

commonSeeds == << "metadata", "vault", "pool", "authority", "state", "config",
                  "escrow", "mint", "token", "user", "account", "data" >>

OnCurve == { "A1", "A5", External, ProgramId }

\* createProgramAddress(program, [label, bump bytes...]): the address, or
\* nothing when the hash lands on the curve
createProgramAddress(label, bumps) ==
    IF label = "metadata" /\ Len(bumps) = 2 /\ bumps[1] = 7 THEN << >>
    ELSE IF label = "vault" /\ bumps = << 254, 255 >> THEN << "A2" >>
    ELSE IF label = "pool" /\ bumps = << 253 >> THEN << "A3" >>
    ELSE IF label = "pool" /\ bumps = << 253, 255 >> THEN << >>
    ELSE IF label = "state" /\ bumps = << 9, 255 >> THEN << "A2" >>
    ELSE << "Z0" >>

\* findProgramAddress(seeds, program): appends its own bump seed, from b
\* downward, and returns the first address off the curve (throws when there is
\* none)
findProgramAddressFrom(label, bumps, b) ==
    LET r == createProgramAddress(label, Append(bumps, b))
    IN  IF r # << >> THEN r
        ELSE LET viable == { c \in 0..(b - 1) :
                               createProgramAddress(label, Append(bumps, c)) # << >> }
             IN  IF viable = {} THEN << >>
                 ELSE createProgramAddress(label,
                          Append(bumps, CHOOSE c \in viable : \A d \in viable : d <= c))

findProgramAddress(label, bumps) == findProgramAddressFrom(label, bumps, 255)

\* with the catalogue tried from its last label to its first
attemptCommonDerivationsLastLabelFirst(targetPubkey) ==
    LET hits == { ib \in (1..Len(commonSeeds)) \X (0..255) :
                    findProgramAddress(commonSeeds[ib[1]], << ib[2] >>) = << targetPubkey >> }
    IN  IF hits = {} THEN << >>
        ELSE LET first == CHOOSE h \in hits : \A g \in hits :
                              h[1] > g[1] \/ (h[1] = g[1] /\ h[2] >= g[2])
             IN  << [seeds |-> << commonSeeds[first[1]] >>, bump |-> first[2]] >>

attemptCommonDerivations(targetPubkey) ==
    LET hits == { ib \in (1..Len(commonSeeds)) \X (0..255) :
                    findProgramAddress(commonSeeds[ib[1]], << ib[2] >>) = << targetPubkey >> }
    IN  IF hits = {} THEN << >>
        ELSE LET first == CHOOSE h \in hits : \A g \in hits :
                              h[1] < g[1] \/ (h[1] = g[1] /\ h[2] >= g[2])
             IN  << [seeds |-> << commonSeeds[first[1]] >>, bump |-> first[2]] >>

\* the search depends on the address alone: computed once per address
Derivations == [a \in { AddrSeq[i] : i \in 1..Len(AddrSeq) } |-> attemptCommonDerivations(a)]

analyzePDA(account) ==
    LET isPDA == account.pubkey \notin OnCurve
        derivationResult == IF isPDA THEN Derivations[account.pubkey] ELSE << >>
    IN  [pubkey |-> account.pubkey, owner |-> account.owner, lamports |-> account.lamports,
         isPDA |-> isPDA,
         seeds |-> IF derivationResult # << >> THEN << derivationResult[1].seeds >> ELSE << >>,
         bump |-> IF derivationResult # << >> THEN derivationResult[1].bump ELSE Undefined]

batchAnalyzePDAs(accs) == [i \in 1..Len(accs) |-> analyzePDA(accs[i])]

enrichAccountsWithActivity(accs, acts) ==
    [i \in 1..Len(accs) |->
        [pubkey |-> accs[i].pubkey, owner |-> accs[i].owner, lamports |-> accs[i].lamports,
         isPDA |-> accs[i].isPDA, seeds |-> accs[i].seeds, bump |-> accs[i].bump,
         lastWriteSlot |-> acts[accs[i].pubkey]]]

----------------------------------------------------------------------------
(* GhostDetector.generateSummary *)

Count(Keep(_), xs) == Len(Filter(Keep, xs, 1))

RECURSIVE SumRecoverable(_)
SumRecoverable(profiles) ==
    IF profiles = << >> THEN 0
    ELSE profiles[1].estimatedRecoverableSOL.num + SumRecoverable(Tail(profiles))

\* activeAccounts counted as the profiles that are not dormant
generateSummaryActiveNotDormant(profiles) ==
    LET IsDormant(p) == \E i \in 1..Len(p.indicators) : p.indicators[i].type = "inactivity"
        IsActive(p) == ~IsDormant(p)
        IsHighRisk(p) == p.riskLevel = "High" \/ p.riskLevel = "Critical"
    IN  [totalAccounts |-> Len(profiles),
         activeAccounts |-> Count(IsActive, profiles),
         dormantAccounts |-> Count(IsDormant, profiles),
         highRiskAccounts |-> Count(IsHighRisk, profiles),
         totalRecoverableSOL |-> SOL(SumRecoverable(profiles))]

generateSummary(profiles) ==
    LET IsLow(p) == p.riskLevel = "Low"
        IsDormant(p) == \E i \in 1..Len(p.indicators) : p.indicators[i].type = "inactivity"
        IsHighRisk(p) == p.riskLevel = "High" \/ p.riskLevel = "Critical"
    IN  [totalAccounts |-> Len(profiles),
         activeAccounts |-> Count(IsLow, profiles),
         dormantAccounts |-> Count(IsDormant, profiles),
         highRiskAccounts |-> Count(IsHighRisk, profiles),
         totalRecoverableSOL |-> SOL(SumRecoverable(profiles))]

----------------------------------------------------------------------------
(* Inputs *)

DefaultWeights ==
    [inactivity |-> 30, authorityMismatch |-> 25, orphanedPda |-> 25, rentRecoverable |-> 20]
DefaultThresholds == [low |-> 25, medium |-> 50, high |-> 75, critical |-> 90]
HeavyWeights ==
    [inactivity |-> 100, authorityMismatch |-> 100, orphanedPda |-> 100, rentRecoverable |-> 100]

\* config.json is not validated: any numbers can stand in it
WeightSet ==
    [inactivity : {0 - 30, 0, 30, 100}, authorityMismatch : {25},
     orphanedPda : {0, 25, 100}, rentRecoverable : {0 - 20, 0, 20, 100}]
ThresholdSet ==
    { DefaultThresholds, [low |-> 25, medium |-> 50, high |-> 55, critical |-> 40] }

InactiveSlots == MaxSlot \div 3
\* --inactive-slots: a threshold below the ledger position, and one that reaches it
InactiveSlotsSet == { InactiveSlots, MaxSlot }
Slots == {Undefined} \cup (0..MaxSlot)

TwoMillion == 2000000 \div LamportUnit
TenSOL == 10 * UnitsPerSOL
LamportSet == { 0, minRentExemption, TwoMillion,
                minRentExemption + TenSOL - 1, minRentExemption + TenSOL }

Addr(n) == { AddrSeq[i] : i \in 1..n }

\* sequences over S of length at most n
RECURSIVE SeqsUpTo(_, _)
SeqsUpTo(S, n) ==
    IF n = 0 THEN { << >> }
    ELSE LET shorter == SeqsUpTo(S, n - 1)
         IN  shorter \cup { Append(q, x) : q \in { t \in shorter : Len(t) = n - 1 }, x \in S }

DistinctPubkeys(accs) ==
    \A i, j \in 1..Len(accs) : i # j => accs[i].pubkey # accs[j].pubkey

maxAccountsPerBatch == 100
retryAttempts == 3

ConfigOf(weights, thresholds, maxNodes) ==
    [weights |-> weights, thresholds |-> thresholds,
     maxNodesInGraph |-> maxNodes, inactiveSlots |-> InactiveSlots,
     maxAccountsPerBatch |-> maxAccountsPerBatch, retryAttempts |-> retryAttempts]

\* no Promise.all of analyzePDA promises is pending
PdaIdle == [phase |-> "idle", pending |-> {}, results |-> << >>, order |-> << >>]

\* batchGetAccountActivities is not running.  pubkeys, batches, k (the i of
\* createBatches), i, batchResults are its locals; inflight are the lookups
\* not yet settled; issued, responses, attempts and delays record what the
\* RPC node saw: the addresses asked for, what it answered, how many requests
\* each address got, and how many delays ran to their end
RpcIdle ==
    [phase |-> "idle", pubkeys |-> << >>, batches |-> << >>, k |-> 0, i |-> 0,
     inflight |-> {}, batchResults |-> << >>,
     issued |-> {}, responses |-> << >>, attempts |-> << >>, delays |-> 0]

\* the web UI as first rendered: no scan result, no error, no file being read
UiIdle == [scanResult |-> << >>, error |-> << >>, reading |-> {}]

Unset ==
    /\ currentSlot = Undefined
    /\ rawAccounts = << >>
    /\ accounts = << >>
    /\ activities = << >>
    /\ enrichedAccounts = << >>
    /\ riskProfiles = << >>
    /\ authorities = << >>
    /\ graph = << >>
    /\ filteredGraph = << >>
    /\ summary = << >>
    /\ scanResult = << >>
    /\ report = << >>
    /\ failure = << >>
    /\ legacyAuthorities = << >>
    /\ chains = << >>
    /\ pda = PdaIdle
    /\ rpc = RpcIdle
    /\ ui = UiIdle

----------------------------------------------------------------------------
(* scanCommand, with ProgramScanner.scan inlined at its call *)

RawAccountSet ==
    [pubkey : Addr(3), owner : {ProgramId, External}, lamports : {minRentExemption, TwoMillion}]

Init ==
    /\ pc = "getCurrentSlot"
    /\ config \in { ConfigOf(w, DefaultThresholds, m) :
                      w \in {DefaultWeights, HeavyWeights}, m \in {1, 2, 1000} }
    /\ Unset

\* any throw inside the try block: the catch block reports it and exits with 1
Catch(cause) ==
    /\ pc' = "exit1"
    /\ failure' = << cause >>

GetCurrentSlot ==
    /\ pc = "getCurrentSlot"
    /\ currentSlot' = MaxSlot
    /\ pc' = "getProgramAccounts"
    /\ UNCHANGED << ui, pda, rpc, config, rawAccounts, accounts, activities, enrichedAccounts,
                    riskProfiles, authorities, graph, filteredGraph, summary,
                    scanResult, report, failure, legacyAuthorities, chains >>

\* the error logged and not rethrown
GetProgramAccountsFailsSwallowed ==
    /\ pc = "getProgramAccounts"
    /\ failure' = << "getProgramAccounts" >>
    /\ pc' = "batchAnalyzePDAs"
    /\ UNCHANGED << ui, pda, rpc, config, currentSlot, rawAccounts, accounts, activities, enrichedAccounts,
                    riskProfiles, authorities, graph, filteredGraph, summary,
                    scanResult, report, legacyAuthorities, chains >>

GetCurrentSlotFails ==
    /\ pc = "getCurrentSlot"
    /\ Catch("getCurrentSlot")
    /\ UNCHANGED << ui, pda, rpc, config, currentSlot, rawAccounts, accounts, activities, enrichedAccounts,
                    riskProfiles, authorities, graph, filteredGraph, summary,
                    scanResult, report, legacyAuthorities, chains >>

\* the node answers with any list of accounts over the address set S
GetProgramAccountsFrom(S) ==
    /\ pc = "getProgramAccounts"
    /\ \E accs \in SeqsUpTo(S, MaxAccounts) :
          /\ DistinctPubkeys(accs)
          /\ rawAccounts' = accs
    /\ pc' = "batchAnalyzePDAs"
    /\ UNCHANGED << ui, pda, rpc, config, currentSlot, accounts, activities, enrichedAccounts,
                    riskProfiles, authorities, graph, filteredGraph, summary,
                    scanResult, report, failure, legacyAuthorities, chains >>

GetProgramAccounts == GetProgramAccountsFrom(RawAccountSet)

GetProgramAccountsFails ==
    /\ pc = "getProgramAccounts"
    /\ Catch("getProgramAccounts")
    /\ UNCHANGED << ui, pda, rpc, config, currentSlot, rawAccounts, accounts, activities, enrichedAccounts,
                    riskProfiles, authorities, graph, filteredGraph, summary,
                    scanResult, report, legacyAuthorities, chains >>

BatchAnalyzePDAs ==
    /\ pc = "batchAnalyzePDAs"
    /\ accounts' = batchAnalyzePDAs(rawAccounts)
    /\ pc' = "batchGetAccountActivities"
    /\ UNCHANGED << ui, pda, rpc, config, currentSlot, rawAccounts, activities, enrichedAccounts,
                    riskProfiles, authorities, graph, filteredGraph, summary,
                    scanResult, report, failure, legacyAuthorities, chains >>

\* getAccountLastActivity never throws: a failed lookup and an address without
\* signatures both give undefined
BatchGetAccountActivities ==
    /\ pc = "batchGetAccountActivities"
    /\ activities' \in [Pubkeys(accounts) -> {Undefined, MaxSlot}]
    /\ pc' = "enrich"
    /\ UNCHANGED << ui, pda, rpc, config, currentSlot, rawAccounts, accounts, enrichedAccounts,
                    riskProfiles, authorities, graph, filteredGraph, summary,
                    scanResult, report, failure, legacyAuthorities, chains >>

EnrichAccountsWithActivity ==
    /\ pc = "enrich"
    /\ enrichedAccounts' = enrichAccountsWithActivity(accounts, activities)
    /\ pc' = "analyzeAccounts"
    /\ UNCHANGED << ui, pda, rpc, config, currentSlot, rawAccounts, accounts, activities,
                    riskProfiles, authorities, graph, filteredGraph, summary,
                    scanResult, report, failure, legacyAuthorities, chains >>

Detector ==
    GhostDetector(currentSlot, config.inactiveSlots, config.weights, config.thresholds)

AnalyzeAccounts ==
    /\ pc = "analyzeAccounts"
    /\ riskProfiles' = analyzeAccounts(Detector, enrichedAccounts, minRentExemption)
    /\ pc' = "buildAuthorityRelationships"
    /\ UNCHANGED << ui, pda, rpc, config, currentSlot, rawAccounts, accounts, activities, enrichedAccounts,
                    authorities, graph, filteredGraph, summary,
                    scanResult, report, failure, legacyAuthorities, chains >>

BuildAuthorityRelationships ==
    /\ pc = "buildAuthorityRelationships"
    /\ authorities' = buildAuthorityRelationships(ProgramId, enrichedAccounts)
    /\ pc' = "buildGraph"
    /\ UNCHANGED << ui, pda, rpc, config, currentSlot, rawAccounts, accounts, activities, enrichedAccounts,
                    riskProfiles, graph, filteredGraph, summary,
                    scanResult, report, failure, legacyAuthorities, chains >>

BuildGraph ==
    /\ pc = "buildGraph"
    /\ graph' = << buildGraph(ProgramId, currentSlot, enrichedAccounts, riskProfiles, authorities) >>
    /\ pc' = "filterGraph"
    /\ UNCHANGED << ui, pda, rpc, config, currentSlot, rawAccounts, accounts, activities, enrichedAccounts,
                    riskProfiles, authorities, filteredGraph, summary,
                    scanResult, report, failure, legacyAuthorities, chains >>

FilterGraph ==
    /\ pc = "filterGraph"
    /\ filteredGraph' = << filterGraphForVisualization(graph[1], config.maxNodesInGraph) >>
    /\ graph' = << [graph[1] EXCEPT !.nodes = NodesAfterFilter(graph[1], config.maxNodesInGraph)] >>
    /\ pc' = "generateSummary"
    /\ UNCHANGED << ui, pda, rpc, config, currentSlot, rawAccounts, accounts, activities, enrichedAccounts,
                    riskProfiles, authorities, summary,
                    scanResult, report, failure, legacyAuthorities, chains >>

GenerateSummary ==
    /\ pc = "generateSummary"
    /\ summary' = << generateSummary(riskProfiles) >>
    /\ pc' = "scanResult"
    /\ UNCHANGED << ui, pda, rpc, config, currentSlot, rawAccounts, accounts, activities, enrichedAccounts,
                    riskProfiles, authorities, graph, filteredGraph,
                    scanResult, report, failure, legacyAuthorities, chains >>

AssembleScanResult ==
    /\ pc = "scanResult"
    /\ scanResult' = << [programId |-> ProgramId,
                         currentSlot |-> currentSlot,
                         summary |-> summary[1],
                         accounts |-> riskProfiles,
                         graph |-> filteredGraph[1],
                         authorities |-> authorities] >>
    /\ pc' = "generateReport"
    /\ UNCHANGED << ui, pda, rpc, config, currentSlot, rawAccounts, accounts, activities, enrichedAccounts,
                    riskProfiles, authorities, graph, filteredGraph, summary,
                    report, failure, legacyAuthorities, chains >>

\* scanCommand passes no minimumRiskLevel: the JSON report is the scan result
GenerateReport ==
    /\ pc = "generateReport"
    /\ report' = scanResult
    /\ pc' = "done"
    /\ UNCHANGED << ui, pda, rpc, config, currentSlot, rawAccounts, accounts, activities, enrichedAccounts,
                    riskProfiles, authorities, graph, filteredGraph, summary,
                    scanResult, failure, legacyAuthorities, chains >>

GenerateReportFails ==
    /\ pc = "generateReport"
    /\ Catch("generateReport")
    /\ UNCHANGED << ui, pda, rpc, config, currentSlot, rawAccounts, accounts, activities, enrichedAccounts,
                    riskProfiles, authorities, graph, filteredGraph, summary,
                    scanResult, report, legacyAuthorities, chains >>

Next ==
    \/ GetCurrentSlot
    \/ GetCurrentSlotFails
    \/ GetProgramAccounts
    \/ GetProgramAccountsFails
    \/ BatchAnalyzePDAs
    \/ BatchGetAccountActivities
    \/ EnrichAccountsWithActivity
    \/ AnalyzeAccounts
    \/ BuildAuthorityRelationships
    \/ BuildGraph
    \/ FilterGraph
    \/ GenerateSummary
    \/ AssembleScanResult
    \/ GenerateReport
    \/ GenerateReportFails

Spec == Init /\ [][Next]_vars

----------------------------------------------------------------------------
(* SolanaRPCClient: the activity lookups *)

SetOf(xs) == { xs[j] : j \in 1..Len(xs) }

\* Array.prototype.slice(begin, end)
slice(xs, begin, end) ==
    LET len == Len(xs)
        b == IF begin < 0 THEN Max(len + begin, 0) ELSE Min(begin, len)
        e == IF end < 0 THEN Max(len + end, 0) ELSE Min(end, len)
    IN  IF e <= b THEN << >> ELSE SubSeq(xs, b + 1, e)

\* what one getSignaturesForAddress(pubkey, {limit: 1}) request can bring:
\* a throw, an empty list, or the newest signature
Thrown == [error |-> TRUE, signatures |-> << >>]
ResponseSet ==
    { [error |-> FALSE, signatures |-> sigs] :
        sigs \in { << >>, << [slot |-> 1] >>, << [slot |-> MaxSlot] >> } }

getAccountLastActivity(response) ==
    IF response.error THEN Undefined
    ELSE IF Len(response.signatures) = 0 THEN Undefined
    ELSE response.signatures[1].slot

\* activities.set(pubkey, activity) for every entry of batchResults
SetAll(acts, batchResults) ==
    [a \in (DOMAIN acts) \cup (DOMAIN batchResults) |->
        IF a \in DOMAIN batchResults THEN batchResults[a] ELSE acts[a]]

----------------------------------------------------------------------------
(* scanCommand with the two awaited fan-outs of ProgramScanner.scan taken
   promise by promise: Promise.all over analyzePDA, and the batches of
   batchGetAccountActivities *)

ScanAccountSet == [pubkey : Addr(3), owner : {ProgramId}, lamports : {TwoMillion}]

NegativeWeights == [DefaultWeights EXCEPT !.inactivity = 0 - 30]
DescendingThresholds == [low |-> 25, medium |-> 50, high |-> 55, critical |-> 40]

ScanConfigSet ==
    { [ConfigOf(wt[1], wt[2], 1000) EXCEPT !.maxAccountsPerBatch = B] :
        wt \in { << DefaultWeights, DefaultThresholds >>,
                 << NegativeWeights, DefaultThresholds >>,
                 << DefaultWeights, DescendingThresholds >> },
        B \in 1..MaxBatch }

InitScan ==
    /\ pc = "getCurrentSlot"
    /\ config \in ScanConfigSet
    /\ Unset

GetScanAccounts == GetProgramAccountsFrom(ScanAccountSet)

\* accounts.map(account => this.analyzePDA(account)): every promise is created
StartAnalyzePDAs ==
    /\ pc = "batchAnalyzePDAs"
    /\ pda.phase = "idle"
    /\ pda' = [phase |-> "pending", pending |-> 1..Len(rawAccounts),
               results |-> << >>, order |-> << >>]
    /\ UNCHANGED << ui, pc, rpc, config, currentSlot, rawAccounts, accounts, activities,
                    enrichedAccounts, riskProfiles, authorities, graph, filteredGraph,
                    summary, scanResult, report, failure, legacyAuthorities, chains >>

\* the promise of the i-th account fulfils
AnalyzePDAReturns(i) ==
    /\ pc = "batchAnalyzePDAs"
    /\ pda.phase = "pending"
    /\ i \in pda.pending
    /\ pda' = [pda EXCEPT !.pending = @ \ {i},
                          !.results = @ @@ (i :> analyzePDA(rawAccounts[i])),
                          !.order = Append(@, i)]
    /\ UNCHANGED << ui, pc, rpc, config, currentSlot, rawAccounts, accounts, activities,
                    enrichedAccounts, riskProfiles, authorities, graph, filteredGraph,
                    summary, scanResult, report, failure, legacyAuthorities, chains >>

\* the results handed over as they arrived, not by position
JoinAnalyzePDAsInCompletionOrder ==
    /\ pc = "batchAnalyzePDAs"
    /\ pda.phase = "pending"
    /\ pda.pending = {}
    /\ accounts' = [k \in 1..Len(rawAccounts) |-> pda.results[pda.order[k]]]
    /\ pda' = [pda EXCEPT !.phase = "fulfilled"]
    /\ pc' = "batchGetAccountActivities"
    /\ UNCHANGED << ui, rpc, config, currentSlot, rawAccounts, activities,
                    enrichedAccounts, riskProfiles, authorities, graph, filteredGraph,
                    summary, scanResult, report, failure, legacyAuthorities, chains >>

\* the scan going on with the results that arrived so far
JoinAnalyzePDAsEarly ==
    /\ pc = "batchAnalyzePDAs"
    /\ pda.phase = "pending"
    /\ accounts' = [k \in 1..Len(pda.order) |-> pda.results[pda.order[k]]]
    /\ pc' = "batchGetAccountActivities"
    /\ UNCHANGED << ui, pda, rpc, config, currentSlot, rawAccounts, activities,
                    enrichedAccounts, riskProfiles, authorities, graph, filteredGraph,
                    summary, scanResult, report, failure, legacyAuthorities, chains >>

\* Promise.all fulfils when every promise has: the results by position
JoinAnalyzePDAs ==
    /\ pc = "batchAnalyzePDAs"
    /\ pda.phase = "pending"
    /\ pda.pending = {}
    /\ accounts' = [i \in 1..Len(rawAccounts) |-> pda.results[i]]
    /\ pda' = [pda EXCEPT !.phase = "fulfilled"]
    /\ pc' = "batchGetAccountActivities"
    /\ UNCHANGED << ui, rpc, config, currentSlot, rawAccounts, activities,
                    enrichedAccounts, riskProfiles, authorities, graph, filteredGraph,
                    summary, scanResult, report, failure, legacyAuthorities, chains >>

\* scan: pubkeys = accounts.map(...), then batchGetAccountActivities(pubkeys)
\* up to its call of createBatches
CallBatchGetAccountActivities ==
    /\ pc = "batchGetAccountActivities"
    /\ rpc.phase = "idle"
    /\ rpc' = [RpcIdle EXCEPT !.phase = "createBatches",
                              !.pubkeys = [j \in 1..Len(accounts) |-> accounts[j].pubkey]]
    /\ activities' = << >>
    /\ UNCHANGED << ui, pc, pda, config, currentSlot, rawAccounts, accounts,
                    enrichedAccounts, riskProfiles, authorities, graph, filteredGraph,
                    summary, scanResult, report, failure, legacyAuthorities, chains >>

\* createBatches: one turn of its loop
CreateBatchesStep ==
    /\ rpc.phase = "createBatches"
    /\ rpc.k < Len(rpc.pubkeys)
    /\ Len(rpc.batches) < MaxBatches
    /\ rpc' = [rpc EXCEPT
                 !.batches = Append(@, slice(rpc.pubkeys, rpc.k, rpc.k + config.maxAccountsPerBatch)),
                 !.k = @ + config.maxAccountsPerBatch]
    /\ UNCHANGED << ui, pc, pda, config, currentSlot, rawAccounts, accounts, activities,
                    enrichedAccounts, riskProfiles, authorities, graph, filteredGraph,
                    summary, scanResult, report, failure, legacyAuthorities, chains >>

\* createBatches: the loop still runs when the array of batches has used up the
\* heap, and the process dies
CreateBatchesExhaustsHeap ==
    /\ rpc.phase = "createBatches"
    /\ rpc.k < Len(rpc.pubkeys)
    /\ Len(rpc.batches) >= MaxBatches
    /\ rpc' = [rpc EXCEPT !.phase = "heapExhausted"]
    /\ pc' = "aborted"
    /\ UNCHANGED << ui, pda, config, currentSlot, rawAccounts, accounts, activities,
                    enrichedAccounts, riskProfiles, authorities, graph, filteredGraph,
                    summary, scanResult, report, failure, legacyAuthorities, chains >>

\* createBatches returns, the for loop of batchGetAccountActivities starts
CreateBatchesReturns ==
    /\ rpc.phase = "createBatches"
    /\ rpc.k >= Len(rpc.pubkeys)
    /\ rpc' = [rpc EXCEPT !.phase = "for", !.i = 0]
    /\ UNCHANGED << ui, pc, pda, config, currentSlot, rawAccounts, accounts, activities,
                    enrichedAccounts, riskProfiles, authorities, graph, filteredGraph,
                    summary, scanResult, report, failure, legacyAuthorities, chains >>

\* batch.map(async pubkey => ...): every lookup of batches[i] is sent
IssueBatch ==
    /\ rpc.phase = "for"
    /\ rpc.i < Len(rpc.batches)
    /\ LET batch == SetOf(rpc.batches[rpc.i + 1])
       IN  rpc' = [rpc EXCEPT !.phase = "await",
                              !.inflight = batch,
                              !.batchResults = << >>,
                              !.issued = @ \cup batch,
                              !.attempts = SetAll(@, [a \in batch |-> 1])]
    /\ UNCHANGED << ui, pc, pda, config, currentSlot, rawAccounts, accounts, activities,
                    enrichedAccounts, riskProfiles, authorities, graph, filteredGraph,
                    summary, scanResult, report, failure, legacyAuthorities, chains >>

\* one lookup of the batch is answered
LookupReturns(a) ==
    /\ rpc.phase = "await"
    /\ a \in rpc.inflight
    /\ \E response \in ResponseSet :
          rpc' = [rpc EXCEPT !.inflight = @ \ {a},
                             !.responses = @ @@ (a :> response),
                             !.batchResults = @ @@ (a :> getAccountLastActivity(response))]
    /\ UNCHANGED << ui, pc, pda, config, currentSlot, rawAccounts, accounts, activities,
                    enrichedAccounts, riskProfiles, authorities, graph, filteredGraph,
                    summary, scanResult, report, failure, legacyAuthorities, chains >>

\* the request's error leaving getAccountLastActivity
LookupFailsThrows(a) ==
    /\ rpc.phase = "await"
    /\ a \in rpc.inflight
    /\ rpc' = [rpc EXCEPT !.inflight = @ \ {a}, !.responses = @ @@ (a :> Thrown)]
    /\ Catch("batchGetAccountActivities")
    /\ UNCHANGED << ui, pda, config, currentSlot, rawAccounts, accounts, activities,
                    enrichedAccounts, riskProfiles, authorities, graph, filteredGraph,
                    summary, scanResult, report, legacyAuthorities, chains >>

\* one lookup of the batch throws inside getAccountLastActivity
LookupFails(a) ==
    /\ rpc.phase = "await"
    /\ a \in rpc.inflight
    /\ rpc' = [rpc EXCEPT !.inflight = @ \ {a},
                          !.responses = @ @@ (a :> Thrown),
                          !.batchResults = @ @@ (a :> getAccountLastActivity(Thrown))]
    /\ UNCHANGED << ui, pc, pda, config, currentSlot, rawAccounts, accounts, activities,
                    enrichedAccounts, riskProfiles, authorities, graph, filteredGraph,
                    summary, scanResult, report, failure, legacyAuthorities, chains >>

\* the batch stored with no delay on any branch
JoinBatchNoDelay ==
    /\ rpc.phase = "await"
    /\ rpc.inflight = {}
    /\ activities' = SetAll(activities, rpc.batchResults)
    /\ rpc' = [rpc EXCEPT !.phase = "for", !.i = @ + 1]
    /\ UNCHANGED << ui, pc, pda, config, currentSlot, rawAccounts, accounts,
                    enrichedAccounts, riskProfiles, authorities, graph, filteredGraph,
                    summary, scanResult, report, failure, legacyAuthorities, chains >>

\* Promise.all of the batch fulfils: its results are stored, and the delay
\* starts unless this was the last batch
JoinBatch ==
    /\ rpc.phase = "await"
    /\ rpc.inflight = {}
    /\ activities' = SetAll(activities, rpc.batchResults)
    /\ rpc' = IF rpc.i < Len(rpc.batches) - 1
              THEN [rpc EXCEPT !.phase = "delay"]
              ELSE [rpc EXCEPT !.phase = "for", !.i = @ + 1]
    /\ UNCHANGED << ui, pc, pda, config, currentSlot, rawAccounts, accounts,
                    enrichedAccounts, riskProfiles, authorities, graph, filteredGraph,
                    summary, scanResult, report, failure, legacyAuthorities, chains >>

\* delay(delayBetweenBatches) ran to its end
DelayElapsed ==
    /\ rpc.phase = "delay"
    /\ rpc' = [rpc EXCEPT !.phase = "for", !.i = @ + 1, !.delays = @ + 1]
    /\ UNCHANGED << ui, pc, pda, config, currentSlot, rawAccounts, accounts, activities,
                    enrichedAccounts, riskProfiles, authorities, graph, filteredGraph,
                    summary, scanResult, report, failure, legacyAuthorities, chains >>

\* the loop is over: batchGetAccountActivities and scan return
BatchGetAccountActivitiesReturns ==
    /\ pc = "batchGetAccountActivities"
    /\ rpc.phase = "for"
    /\ rpc.i >= Len(rpc.batches)
    /\ rpc' = [rpc EXCEPT !.phase = "done"]
    /\ pc' = "enrich"
    /\ UNCHANGED << ui, pda, config, currentSlot, rawAccounts, accounts, activities,
                    enrichedAccounts, riskProfiles, authorities, graph, filteredGraph,
                    summary, scanResult, report, failure, legacyAuthorities, chains >>

NextScan ==
    \/ GetCurrentSlot
    \/ GetCurrentSlotFails
    \/ GetScanAccounts
    \/ GetProgramAccountsFails
    \/ StartAnalyzePDAs
    \/ \E i \in 1..(MaxAccounts + 1) : AnalyzePDAReturns(i)
    \/ JoinAnalyzePDAs
    \/ CallBatchGetAccountActivities
    \/ CreateBatchesStep
    \/ CreateBatchesReturns
    \/ IssueBatch
    \/ \E a \in Addr(3) : LookupReturns(a)
    \/ \E a \in Addr(3) : LookupFails(a)
    \/ JoinBatch
    \/ DelayElapsed
    \/ BatchGetAccountActivitiesReturns
    \/ EnrichAccountsWithActivity
    \/ AnalyzeAccounts
    \/ BuildAuthorityRelationships
    \/ BuildGraph
    \/ FilterGraph
    \/ GenerateSummary
    \/ AssembleScanResult
    \/ GenerateReport
    \/ GenerateReportFails

SpecScan == InitScan /\ [][NextScan]_vars

----------------------------------------------------------------------------
(* batchGetAccountActivities on its own, with every batch size the
   configuration file can hold, and each of its promises settling in the end *)

BatchSizeSet == (0 - 1)..MaxBatch

InitBatch ==
    /\ pc = "batchGetAccountActivities"
    /\ \E B \in BatchSizeSet :
          config = [ConfigOf(DefaultWeights, DefaultThresholds, 1000)
                      EXCEPT !.maxAccountsPerBatch = B]
    /\ currentSlot = MaxSlot
    /\ \E accs \in SeqsUpTo(ScanAccountSet, MaxAccounts) :
          /\ DistinctPubkeys(accs)
          /\ rawAccounts = accs
          /\ accounts = batchAnalyzePDAs(accs)
    /\ activities = << >>
    /\ enrichedAccounts = << >>
    /\ riskProfiles = << >>
    /\ authorities = << >>
    /\ graph = << >>
    /\ filteredGraph = << >>
    /\ summary = << >>
    /\ scanResult = << >>
    /\ report = << >>
    /\ failure = << >>
    /\ legacyAuthorities = << >>
    /\ chains = << >>
    /\ pda = PdaIdle
    /\ rpc = RpcIdle
    /\ ui = UiIdle

NextBatch ==
    \/ CallBatchGetAccountActivities
    \/ CreateBatchesStep
    \/ CreateBatchesExhaustsHeap
    \/ CreateBatchesReturns
    \/ IssueBatch
    \/ \E a \in Addr(3) : LookupReturns(a)
    \/ \E a \in Addr(3) : LookupFails(a)
    \/ JoinBatch
    \/ DelayElapsed
    \/ BatchGetAccountActivitiesReturns

\* the event loop runs every continuation that is ready, and every request and
\* timer settles
SpecBatchFair == InitBatch /\ [][NextBatch]_vars /\ WF_vars(NextBatch)

----------------------------------------------------------------------------
(* The classifier on its own: any listed accounts over all five addresses *)

ClassifyAccountSet ==
    [pubkey : Addr(5), owner : {ProgramId, External}, lamports : {minRentExemption}]

InitClassify ==
    /\ pc = "batchAnalyzePDAs"
    /\ config = ConfigOf(DefaultWeights, DefaultThresholds, 1000)
    /\ currentSlot = MaxSlot
    /\ \E accs \in SeqsUpTo(ClassifyAccountSet, MaxAccounts) :
          /\ DistinctPubkeys(accs)
          /\ rawAccounts = accs
    /\ accounts = << >>
    /\ activities = << >>
    /\ enrichedAccounts = << >>
    /\ riskProfiles = << >>
    /\ authorities = << >>
    /\ graph = << >>
    /\ filteredGraph = << >>
    /\ summary = << >>
    /\ scanResult = << >>
    /\ report = << >>
    /\ failure = << >>
    /\ legacyAuthorities = << >>
    /\ chains = << >>
    /\ pda = PdaIdle
    /\ rpc = RpcIdle
    /\ ui = UiIdle

NextClassify == BatchAnalyzePDAs

SpecClassify == InitClassify /\ [][NextClassify]_vars

----------------------------------------------------------------------------
(* ReportGenerator, and reportCommand on a stored scan result *)

riskOrder == << "Low", "Medium", "High", "Critical" >>

\* Array.prototype.indexOf: the first position, from 0, or -1
indexOf(xs, x) ==
    IF \E i \in 1..Len(xs) : xs[i] = x
    THEN (CHOOSE i \in 1..Len(xs) : xs[i] = x /\ \A j \in 1..(i - 1) : xs[j] # x) - 1
    ELSE 0 - 1

\* the JSON text, as the value it is the text of; minimumRiskLevel is 0 or 1 levels
generateJSON(result, reportConfig) ==
    LET minIndex == indexOf(riskOrder, reportConfig.minimumRiskLevel[1])
        Keep(account) == indexOf(riskOrder, account.riskLevel) >= minIndex
        filteredAccounts == IF reportConfig.minimumRiskLevel # << >>
                            THEN Filter(Keep, result.accounts, 1)
                            ELSE result.accounts
    IN  [result EXCEPT !.accounts = filteredAccounts]

\* the Markdown text, as the parts it is made of from the scan result
generateMarkdown(result, reportConfig) ==
    LET IsCritical(a) == a.riskLevel = "Critical"
        IsHigh(a) == a.riskLevel = "High"
        Inactive(a) == ~a.isActive
    IN  [programId |-> result.programId,
         currentSlot |-> result.currentSlot,
         summary |-> result.summary,
         criticalAccounts |-> Filter(IsCritical, result.accounts, 1),
         highRiskAccounts |-> Filter(IsHigh, result.accounts, 1),
         authorities |-> Len(result.authorities),
         inactiveAuthorities |-> Count(Inactive, result.authorities)]

\* the content generateReport writes; any other format throws
generateReport(result, reportConfig) ==
    IF reportConfig.format = "json"
    THEN [config |-> reportConfig, json |-> << generateJSON(result, reportConfig) >>,
          markdown |-> << >>]
    ELSE [config |-> reportConfig, json |-> << >>,
          markdown |-> << generateMarkdown(result, reportConfig) >>]

ReportProfile(pubkey, level) ==
    [pubkey |-> pubkey, riskLevel |-> level, confidenceScore |-> 0,
     indicators |-> << >>, estimatedRecoverableSOL |-> SOL(0)]

RECURSIVE ReportProfileLists(_)
\* profiles of the first n addresses, each at any level
ReportProfileLists(n) ==
    IF n = 0 THEN { << >> }
    ELSE { Append(q, ReportProfile(AddrSeq[n], level)) :
             q \in ReportProfileLists(n - 1), level \in SetOf(riskOrder) }

StoredScanResult(profiles) ==
    [programId |-> ProgramId, currentSlot |-> MaxSlot,
     summary |-> generateSummary(profiles), accounts |-> profiles,
     graph |-> [nodes |-> << >>, edges |-> << >>, programId |-> ProgramId,
                currentSlot |-> MaxSlot],
     authorities |-> << >>]

InitReport ==
    /\ pc = "reportCommand"
    /\ config = ConfigOf(DefaultWeights, DefaultThresholds, 1000)
    /\ currentSlot = MaxSlot
    /\ \E n \in 0..MaxAccounts : \E profiles \in ReportProfileLists(n) :
          scanResult = << StoredScanResult(profiles) >>
    /\ rawAccounts = << >>
    /\ accounts = << >>
    /\ activities = << >>
    /\ enrichedAccounts = << >>
    /\ riskProfiles = << >>
    /\ authorities = << >>
    /\ graph = << >>
    /\ filteredGraph = << >>
    /\ summary = << >>
    /\ report = << >>
    /\ failure = << >>
    /\ legacyAuthorities = << >>
    /\ chains = << >>
    /\ pda = PdaIdle
    /\ rpc = RpcIdle
    /\ ui = UiIdle

\* reportCommand with a valid --min-risk (Low when absent) and a supported format
ReportCommand ==
    /\ pc = "reportCommand"
    /\ \E format \in {"json", "markdown"}, minRisk \in SetOf(riskOrder) :
          report' = << generateReport(scanResult[1],
                          [format |-> format, minimumRiskLevel |-> << minRisk >>]) >>
    /\ pc' = "reported"
    /\ UNCHANGED << ui, pda, rpc, config, currentSlot, rawAccounts, accounts, activities,
                    enrichedAccounts, riskProfiles, authorities, graph, filteredGraph,
                    summary, scanResult, failure, legacyAuthorities, chains >>

\* an unknown --min-risk or an unsupported --format: the catch block, exit 1
ReportCommandFails ==
    /\ pc = "reportCommand"
    /\ \E cause \in {"Invalid risk level", "Unsupported format"} : Catch(cause)
    /\ UNCHANGED << ui, pda, rpc, config, currentSlot, rawAccounts, accounts, activities,
                    enrichedAccounts, riskProfiles, authorities, graph, filteredGraph,
                    summary, scanResult, report, legacyAuthorities, chains >>

NextReport == ReportCommand \/ ReportCommandFails

SpecReport == InitReport /\ [][NextReport]_vars

----------------------------------------------------------------------------
(* The graph builder on its own: any accounts, profiles and relationships *)

GraphAccountSet ==
    { a \in [pubkey : Addr(2), owner : {ProgramId, External}, lamports : {minRentExemption},
             isPDA : BOOLEAN, seeds : { << >>, << << "vault" >> >> },
             bump : {Undefined}, lastWriteSlot : {Undefined}] :
        ~a.isPDA => a.seeds = << >> }

GraphRelationshipSet ==
    [account : {"A1"}, authority : {ProgramId, External},
     privilege : {"owner", "signer"}, isActive : BOOLEAN]

InitGraph ==
    /\ pc = "buildGraph"
    /\ config = ConfigOf(DefaultWeights, DefaultThresholds, 1000)
    /\ currentSlot = MaxSlot
    /\ \E accs \in SeqsUpTo(GraphAccountSet, MaxAccounts) :
          /\ DistinctPubkeys(accs)
          /\ enrichedAccounts = accs
          /\ \E scored \in {0, Len(accs)} :
                riskProfiles = [i \in 1..scored |-> ReportProfile(accs[i].pubkey, "Low")]
    /\ authorities \in SeqsUpTo(GraphRelationshipSet, MaxGraphAuthorities)
    /\ rawAccounts = << >>
    /\ accounts = << >>
    /\ activities = << >>
    /\ graph = << >>
    /\ filteredGraph = << >>
    /\ summary = << >>
    /\ scanResult = << >>
    /\ report = << >>
    /\ failure = << >>
    /\ legacyAuthorities = << >>
    /\ chains = << >>
    /\ pda = PdaIdle
    /\ rpc = RpcIdle
    /\ ui = UiIdle

NextGraph == BuildGraph

SpecGraph == InitGraph /\ [][NextGraph]_vars

----------------------------------------------------------------------------
(* AuthorityTracker.buildAuthorityRelationships on its own: any classified
   accounts, among them accounts that own themselves and accounts whose
   seeds field is set although they are not PDAs *)

AuthorityAccountSet ==
    [pubkey : Addr(3), owner : {ProgramId, "A1", "A2"}, lamports : {minRentExemption},
     isPDA : BOOLEAN, seeds : { << >>, << << "vault" >> >> },
     bump : {Undefined}, lastWriteSlot : {Undefined}]

InitAuthority ==
    /\ pc = "buildAuthorityRelationships"
    /\ config = ConfigOf(DefaultWeights, DefaultThresholds, 1000)
    /\ currentSlot = MaxSlot
    /\ \E accs \in SeqsUpTo(AuthorityAccountSet, MaxAccounts) :
          /\ DistinctPubkeys(accs)
          /\ enrichedAccounts = accs
    /\ rawAccounts = << >>
    /\ accounts = << >>
    /\ activities = << >>
    /\ riskProfiles = << >>
    /\ authorities = << >>
    /\ graph = << >>
    /\ filteredGraph = << >>
    /\ summary = << >>
    /\ scanResult = << >>
    /\ report = << >>
    /\ failure = << >>
    /\ legacyAuthorities = << >>
    /\ chains = << >>
    /\ pda = PdaIdle
    /\ rpc = RpcIdle
    /\ ui = UiIdle

NextAuthority == BuildAuthorityRelationships

SpecAuthority == InitAuthority /\ [][NextAuthority]_vars

----------------------------------------------------------------------------
(* GhostDetector.generateSummary on its own: any list of risk profiles, of any
   level, with or without an inactivity indicator *)

SummaryProfileSet(pubkey) ==
    [pubkey : {pubkey}, riskLevel : SetOf(riskOrder), confidenceScore : {0},
     indicators : { << >>,
                    << [type |-> "inactivity", weight |-> 30 * Scale] >>,
                    << [type |-> "rent_recoverable", weight |-> 20 * Scale],
                       [type |-> "inactivity", weight |-> 30 * Scale] >> },
     estimatedRecoverableSOL : { SOL(0), SOL(TenSOL) }]

RECURSIVE SummaryProfileLists(_)
SummaryProfileLists(n) ==
    IF n = 0 THEN { << >> }
    ELSE { Append(q, p) : q \in SummaryProfileLists(n - 1), p \in SummaryProfileSet(AddrSeq[n]) }

InitSummary ==
    /\ pc = "generateSummary"
    /\ config = ConfigOf(DefaultWeights, DefaultThresholds, 1000)
    /\ currentSlot = MaxSlot
    /\ \E n \in 0..MaxAccounts : riskProfiles \in SummaryProfileLists(n)
    /\ rawAccounts = << >>
    /\ accounts = << >>
    /\ activities = << >>
    /\ enrichedAccounts = << >>
    /\ authorities = << >>
    /\ graph = << >>
    /\ filteredGraph = << >>
    /\ summary = << >>
    /\ scanResult = << >>
    /\ report = << >>
    /\ failure = << >>
    /\ legacyAuthorities = << >>
    /\ chains = << >>
    /\ pda = PdaIdle
    /\ rpc = RpcIdle
    /\ ui = UiIdle

NextSummary == GenerateSummary

SpecSummary == InitSummary /\ [][NextSummary]_vars

----------------------------------------------------------------------------
(* Web UI: FileUploader.handleFile and its FileReader callbacks, App's
   scanResult state, the figures of Dashboard *)

\* obj[key] in JavaScript: the value, or undefined
Get(obj, key) == IF key \in DOMAIN obj THEN << obj[key] >> ELSE << >>

\* Array.isArray, for a value that is an array or an object with other keys
isArray(v) == DOMAIN v = 1..Cardinality(DOMAIN v)

\* the "strict validation" of reader.onload: data passes
Validates(data) ==
    ~ \/ (Get(data, "programId") = << >> \/ Get(data, "programId") = << "" >>)
      \/ Get(data, "summary") = << >>
      \/ Get(data, "accounts") = << >>
      \/ ~isArray(data.accounts)
      \/ Get(data, "graph") = << >>

\* scanCommand's generateReport with the default format and output path:
\* ./reports/ghost-scan-<time>.json holding JSON.stringify of the scan result
ScanFile(profiles) ==
    [stem |-> "ghost-scan-1", extension |-> "json",
     content |-> << generateJSON(StoredScanResult(profiles),
                                 [format |-> "json", minimumRiskLevel |-> << >>]) >>]

ScanFileSet == { ScanFile(profiles) : profiles \in ReportProfileLists(1) }

\* the fields of a record other than those named
Without(obj, keys) == [k \in DOMAIN obj \ keys |-> obj[k]]

\* other files a user can drop: a scan result under another extension, text
\* that is no JSON, a result without its graph, one with an empty programId,
\* one whose accounts are an object keyed "0"
OtherFileSet ==
    LET scanned == ScanFile(<< ReportProfile("A1", "Low") >>)
        data == scanned.content[1]
    IN  { [scanned EXCEPT !.extension = "txt"],
          [stem |-> "broken", extension |-> "json", content |-> << >>],
          [stem |-> "no-graph", extension |-> "json",
           content |-> << Without(data, {"graph"}) >>],
          [stem |-> "no-program", extension |-> "json",
           content |-> << [data EXCEPT !.programId = ""] >>],
          [stem |-> "keyed", extension |-> "json",
           content |-> << [data EXCEPT !.accounts = [k \in {0} |-> data.accounts[1]]] >>] }

UploadFileSet == ScanFileSet \cup OtherFileSet

\* a FileReader at work, and whether the uploader that started it is mounted
ReaderSet == [file : UploadFileSet, mounted : BOOLEAN]

\* setError of a FileUploader: nothing happens once it is unmounted
setError(state, mounted, message) ==
    IF mounted THEN [state EXCEPT !.error = message] ELSE state

\* App.handleFileLoad: the dashboard replaces the uploader, whose reads in
\* flight keep running
handleFileLoad(state, result) ==
    [state EXCEPT !.scanResult = << result >>,
                  !.error = << >>,
                  !.reading = { [r EXCEPT !.mounted = FALSE] : r \in @ }]

\* handleFile up to reader.readAsText(file)
HandleFile(file) ==
    /\ pc = "webUI"
    /\ ui.scanResult = << >>
    /\ Cardinality(ui.reading) < MaxReaders
    /\ [file |-> file, mounted |-> TRUE] \notin ui.reading
    /\ ui' = IF file.extension # "json"
             THEN [ui EXCEPT !.error = << "Please upload a JSON file" >>]
             ELSE [ui EXCEPT !.error = << >>,
                             !.reading = @ \cup { [file |-> file, mounted |-> TRUE] }]
    /\ UNCHANGED << pc, pda, rpc, config, currentSlot, rawAccounts, accounts, activities,
                    enrichedAccounts, riskProfiles, authorities, graph, filteredGraph,
                    summary, scanResult, report, failure, legacyAuthorities, chains >>

\* reader.onload
ReaderOnLoad(r) ==
    /\ pc = "webUI"
    /\ r \in ui.reading
    /\ LET rest == [ui EXCEPT !.reading = @ \ {r}]
       IN  ui' = IF r.file.content = << >>
                 THEN setError(rest, r.mounted, << "Failed to parse JSON file" >>)
                 ELSE IF ~Validates(r.file.content[1])
                      THEN setError(rest, r.mounted, << "Invalid scan result format" >>)
                      ELSE handleFileLoad(rest, r.file.content[1])
    /\ UNCHANGED << pc, pda, rpc, config, currentSlot, rawAccounts, accounts, activities,
                    enrichedAccounts, riskProfiles, authorities, graph, filteredGraph,
                    summary, scanResult, report, failure, legacyAuthorities, chains >>

\* reader.onerror
ReaderOnError(r) ==
    /\ pc = "webUI"
    /\ r \in ui.reading
    /\ ui' = setError([ui EXCEPT !.reading = @ \ {r}], r.mounted, << "Failed to read file" >>)
    /\ UNCHANGED << pc, pda, rpc, config, currentSlot, rawAccounts, accounts, activities,
                    enrichedAccounts, riskProfiles, authorities, graph, filteredGraph,
                    summary, scanResult, report, failure, legacyAuthorities, chains >>

\* App.handleReset: "Load New Scan" brings a new uploader
HandleReset ==
    /\ pc = "webUI"
    /\ ui.scanResult # << >>
    /\ ui' = [ui EXCEPT !.scanResult = << >>, !.error = << >>]
    /\ UNCHANGED << pc, pda, rpc, config, currentSlot, rawAccounts, accounts, activities,
                    enrichedAccounts, riskProfiles, authorities, graph, filteredGraph,
                    summary, scanResult, report, failure, legacyAuthorities, chains >>

\* the stat values Dashboard renders; undefined renders as nothing
Dashboard(result) ==
    [totalAccounts |-> Get(result.summary, "totalAccounts"),
     activeAccounts |-> Get(result.summary, "activAccounts"),
     dormantAccounts |-> Get(result.summary, "dormantAccounts"),
     highRiskAccounts |-> Get(result.summary, "highRiskAccounts")]

InitUpload ==
    /\ pc = "webUI"
    /\ config = ConfigOf(DefaultWeights, DefaultThresholds, 1000)
    /\ Unset

NextUpload ==
    \/ \E file \in UploadFileSet : HandleFile(file)
    \/ \E r \in ReaderSet : ReaderOnLoad(r)
    \/ \E r \in ReaderSet : ReaderOnError(r)
    \/ HandleReset

SpecUpload == InitUpload /\ [][NextUpload]_vars

----------------------------------------------------------------------------
(* The scorer on its own: one classified account, any configuration *)

ScoredAccountSet ==
    { a \in [pubkey : {"A2"}, owner : {ProgramId}, lamports : LamportSet,
             isPDA : BOOLEAN, seeds : { << >>, << << "vault" >> >> },
             bump : {Undefined}, lastWriteSlot : Slots] :
        ~a.isPDA => a.seeds = << >> }

InitScore ==
    /\ pc = "analyzeAccounts"
    /\ config \in { [ConfigOf(w, t, 1000) EXCEPT !.inactiveSlots = n] :
                      w \in WeightSet, t \in ThresholdSet, n \in InactiveSlotsSet }
    /\ currentSlot = MaxSlot
    /\ \E a \in ScoredAccountSet : enrichedAccounts = << a >>
    /\ rawAccounts = << >>
    /\ accounts = << >>
    /\ activities = << >>
    /\ riskProfiles = << >>
    /\ authorities = << >>
    /\ graph = << >>
    /\ filteredGraph = << >>
    /\ summary = << >>
    /\ scanResult = << >>
    /\ report = << >>
    /\ failure = << >>
    /\ legacyAuthorities = << >>
    /\ chains = << >>
    /\ pda = PdaIdle
    /\ rpc = RpcIdle
    /\ ui = UiIdle

NextScore == AnalyzeAccounts

SpecScore == InitScore /\ [][NextScore]_vars

----------------------------------------------------------------------------
(* The visualization filter on its own: any graph, any cap *)

ProfileWithScore(pubkey, score) ==
    [pubkey |-> pubkey, riskLevel |-> "Low", confidenceScore |-> score,
     indicators |-> << >>, estimatedRecoverableSOL |-> SOL(0)]

NodeChoices(pubkey) ==
    { [id |-> pubkey, type |-> "account", riskProfile |-> p] :
        p \in { << >>, << ProfileWithScore(pubkey, 10 * Scale) >>,
                << ProfileWithScore(pubkey, 55 * Scale) >> } }

RECURSIVE NodeLists(_)
\* the program node followed by account nodes for the first n addresses
NodeLists(n) ==
    IF n = 0 THEN { << [id |-> ProgramId, type |-> "program", riskProfile |-> << >>] >> }
    ELSE { Append(q, x) : q \in NodeLists(n - 1), x \in NodeChoices(AddrSeq[n]) }

GraphEdgeSet ==
    { [source |-> ProgramId, target |-> "A1", relationship |-> "owns", isActive |-> TRUE],
      [source |-> ProgramId, target |-> "A2", relationship |-> "derived_from", isActive |-> TRUE],
      [source |-> "A1", target |-> "A2", relationship |-> "authority", isActive |-> TRUE],
      [source |-> External, target |-> "A2", relationship |-> "authority", isActive |-> TRUE] }

GraphSet ==
    { [nodes |-> ns, edges |-> es, programId |-> ProgramId, currentSlot |-> MaxSlot] :
        ns \in UNION { NodeLists(n) : n \in 0..MaxGraphAccounts },
        es \in SeqsUpTo(GraphEdgeSet, MaxGraphEdges) }

CapSet == (0 - 1)..(MaxGraphAccounts + 1)

InitFilter ==
    /\ pc = "filterGraph"
    /\ config \in { ConfigOf(DefaultWeights, DefaultThresholds, m) : m \in CapSet }
    /\ currentSlot = MaxSlot
    /\ \E g \in GraphSet : graph = << g >>
    /\ rawAccounts = << >>
    /\ accounts = << >>
    /\ activities = << >>
    /\ enrichedAccounts = << >>
    /\ riskProfiles = << >>
    /\ authorities = << >>
    /\ filteredGraph = << >>
    /\ summary = << >>
    /\ scanResult = << >>
    /\ report = << >>
    /\ failure = << >>
    /\ legacyAuthorities = << >>
    /\ chains = << >>
    /\ pda = PdaIdle
    /\ rpc = RpcIdle
    /\ ui = UiIdle

NextFilter == FilterGraph

SpecFilter == InitFilter /\ [][NextFilter]_vars

----------------------------------------------------------------------------
(* The authority tracker's queries on their own *)

PlainAccount(pubkey) ==
    [pubkey |-> pubkey, owner |-> ProgramId, lamports |-> minRentExemption,
     isPDA |-> FALSE, seeds |-> << >>, bump |-> Undefined, lastWriteSlot |-> Undefined]

LegacyRelationshipSet ==
    [account : {"A1"}, authority : {"A1", "A2", ProgramId, External},
     privilege : {"owner", "signer"}, isActive : {TRUE}]

LegacyAccountLists ==
    { << >>, << PlainAccount("A1") >>, << PlainAccount("A1"), PlainAccount("A2") >>,
      << PlainAccount(ProgramId) >>, << PlainAccount("A1"), PlainAccount(ProgramId) >> }

InitLegacy ==
    /\ pc = "detectLegacyAuthorities"
    /\ config = ConfigOf(DefaultWeights, DefaultThresholds, 1000)
    /\ currentSlot = MaxSlot
    /\ authorities \in SeqsUpTo(LegacyRelationshipSet, MaxRelationships)
    /\ enrichedAccounts \in LegacyAccountLists
    /\ rawAccounts = << >>
    /\ accounts = << >>
    /\ activities = << >>
    /\ riskProfiles = << >>
    /\ graph = << >>
    /\ filteredGraph = << >>
    /\ summary = << >>
    /\ scanResult = << >>
    /\ report = << >>
    /\ failure = << >>
    /\ legacyAuthorities = << >>
    /\ chains = << >>
    /\ pda = PdaIdle
    /\ rpc = RpcIdle
    /\ ui = UiIdle

DetectLegacyAuthorities ==
    /\ pc = "detectLegacyAuthorities"
    /\ legacyAuthorities' = << detectLegacyAuthorities(ProgramId, authorities, enrichedAccounts) >>
    /\ pc' = "returned"
    /\ UNCHANGED << ui, pda, rpc, config, currentSlot, rawAccounts, accounts, activities, enrichedAccounts,
                    riskProfiles, authorities, graph, filteredGraph, summary,
                    scanResult, report, failure, chains >>

NextLegacy == DetectLegacyAuthorities

SpecLegacy == InitLegacy /\ [][NextLegacy]_vars

ChainRelationshipSet ==
    [account : Addr(3), authority : Addr(3), privilege : {"owner"}, isActive : {TRUE}]
    \cup { [account |-> "A1", authority |-> "A2", privilege |-> "signer", isActive |-> TRUE] }

InitChains ==
    /\ pc = "buildAuthorityChains"
    /\ config = ConfigOf(DefaultWeights, DefaultThresholds, 1000)
    /\ currentSlot = MaxSlot
    /\ authorities \in SeqsUpTo(ChainRelationshipSet, MaxRelationships)
    /\ enrichedAccounts = << >>
    /\ rawAccounts = << >>
    /\ accounts = << >>
    /\ activities = << >>
    /\ riskProfiles = << >>
    /\ graph = << >>
    /\ filteredGraph = << >>
    /\ summary = << >>
    /\ scanResult = << >>
    /\ report = << >>
    /\ failure = << >>
    /\ legacyAuthorities = << >>
    /\ chains = << >>
    /\ pda = PdaIdle
    /\ rpc = RpcIdle
    /\ ui = UiIdle

BuildAuthorityChains ==
    /\ pc = "buildAuthorityChains"
    /\ \E startAccount \in Addr(2), maxDepth \in 0..MaxDepth :
          chains' = << [startAccount |-> startAccount, maxDepth |-> maxDepth,
                        result |-> buildAuthorityChains(startAccount, authorities, maxDepth)] >>
    /\ pc' = "returned"
    /\ UNCHANGED << ui, pda, rpc, config, currentSlot, rawAccounts, accounts, activities, enrichedAccounts,
                    riskProfiles, authorities, graph, filteredGraph, summary,
                    scanResult, report, failure, legacyAuthorities >>

NextChains == BuildAuthorityChains

SpecChains == InitChains /\ [][NextChains]_vars

----------------------------------------------------------------------------
(* Claims about the scorer (SpecScore) *)

Scored == pc = "buildAuthorityRelationships" /\ Len(riskProfiles) = Len(enrichedAccounts)

HasIndicator(p, type) == \E k \in 1..Len(p.indicators) : p.indicators[k].type = type

\* C1: for every account, ledger position, minimum balance and weight/threshold
\* configuration, the confidenceScore of the produced profile is in [0, 100].
C1_ConfidenceInRange ==
    Scored => \A i \in 1..Len(riskProfiles) :
                 /\ riskProfiles[i].confidenceScore >= 0
                 /\ riskProfiles[i].confidenceScore <= 100 * Scale

\* C2: estimatedRecoverableSOL > 0 implies High or Critical; a Low or Medium
\* profile has exactly 0, rent_recoverable indicator or not; a High or Critical
\* profile has max(0, balance - minimum rent-exempt balance) in SOL.
C2_RecoverableOnlyWhenHighRisk ==
    Scored => \A i \in 1..Len(riskProfiles) :
                 LET p == riskProfiles[i]
                     a == enrichedAccounts[i]
                 IN  /\ p.estimatedRecoverableSOL.num > 0 => p.riskLevel \in {"High", "Critical"}
                     /\ p.riskLevel \in {"Low", "Medium"} =>
                            p.estimatedRecoverableSOL = [num |-> 0, den |-> UnitsPerSOL]
                     /\ p.riskLevel \in {"High", "Critical"} =>
                            /\ p.estimatedRecoverableSOL.den * LamportUnit = 10^9
                            /\ p.estimatedRecoverableSOL.num =
                                  (IF a.lamports > minRentExemption
                                   THEN a.lamports - minRentExemption ELSE 0)

C2_Witness ==
    /\ Scored
    /\ \E i \in 1..Len(riskProfiles) :
          /\ riskProfiles[i].riskLevel = "Medium"
          /\ HasIndicator(riskProfiles[i], "rent_recoverable")
          /\ riskProfiles[i].estimatedRecoverableSOL.num = 0
          /\ enrichedAccounts[i].lamports > minRentExemption

\* the account and configuration of the concrete scenario
C3_Scenario(a) ==
    /\ config.weights = DefaultWeights
    /\ config.thresholds = DefaultThresholds
    /\ a.lamports = 2000000 \div LamportUnit
    /\ minRentExemption = 890880 \div LamportUnit
    /\ a.lastWriteSlot > 0
    /\ currentSlot - a.lastWriteSlot > config.inactiveSlots
    /\ a.isPDA
    /\ a.seeds = << >>

\* C3 as stated: the scenario account gets confidence about 55.22, riskLevel
\* High and estimated recoverable balance (2,000,000 - 890,880) / 1e9.
C3_ScenarioAsStated ==
    Scored => \A i \in 1..Len(riskProfiles) :
                 C3_Scenario(enrichedAccounts[i]) =>
                    /\ riskProfiles[i].confidenceScore >= 55210000
                    /\ riskProfiles[i].confidenceScore <= 55230000
                    /\ riskProfiles[i].riskLevel = "High"
                    /\ riskProfiles[i].estimatedRecoverableSOL.num
                          = (2000000 - 890880) \div LamportUnit

\* C3 amended: the scenario account gets confidence about 55.002
\* (30 + 25 + 0.2 * 0.0110912), riskLevel Medium and estimated recoverable
\* balance 0.
C3_ScenarioAmended ==
    Scored => \A i \in 1..Len(riskProfiles) :
                 C3_Scenario(enrichedAccounts[i]) =>
                    /\ riskProfiles[i].confidenceScore = 55002218
                    /\ riskProfiles[i].riskLevel = "Medium"
                    /\ riskProfiles[i].estimatedRecoverableSOL.num = 0

C3_Witness ==
    /\ Scored
    /\ \E i \in 1..Len(riskProfiles) :
          /\ C3_Scenario(enrichedAccounts[i])
          /\ Len(riskProfiles[i].indicators) = 3

----------------------------------------------------------------------------
(* Claims about the visualization filter (SpecFilter) *)

Filtered == pc = "generateSummary" /\ filteredGraph # << >> /\ graph # << >>

\* the position in xs of the node with this id (ids are unique in a graph)
PosOf(xs, id) == CHOOSE i \in 1..Len(xs) : xs[i].id = id

\* a ranks before b in descending confidence order, ties by original position
RanksBefore(g, a, b) ==
    \/ NodeScore(a) > NodeScore(b)
    \/ NodeScore(a) = NodeScore(b) /\ PosOf(g.nodes, a.id) < PosOf(g.nodes, b.id)

\* C4: a graph whose node count is at most the cap is returned unchanged,
\* node for node and edge for edge, in the same order.
C4_SmallGraphUnchanged ==
    Filtered =>
        (Len(graph[1].nodes) <= config.maxNodesInGraph =>
            /\ filteredGraph[1].nodes = graph[1].nodes
            /\ filteredGraph[1].edges = graph[1].edges)

C4_Witness ==
    /\ Filtered
    /\ Len(graph[1].nodes) = config.maxNodesInGraph
    /\ Len(graph[1].nodes) >= 3
    /\ NodeScore(graph[1].nodes[2]) < NodeScore(graph[1].nodes[3])
    /\ Len(graph[1].edges) > 0

\* what C5 says of a filtered graph r of g under cap C
C5_InducedTopSubgraph(g, r, C) ==
    LET kept == NodeIds(r.nodes)
        others == { i \in 1..Len(g.nodes) : g.nodes[i].type # "program" }
        keptIdx == { i \in 1..Len(g.edges) :
                        g.edges[i].source \in kept /\ g.edges[i].target \in kept }
    IN  /\ Len(r.nodes) = C
        /\ r.nodes[1].type = "program"
        /\ r.nodes[1] \in { g.nodes[i] : i \in 1..Len(g.nodes) }
        \* the other retained nodes are nodes of g, in descending order
        /\ \A k \in 2..Len(r.nodes) :
              /\ \E i \in others : g.nodes[i] = r.nodes[k]
              /\ k < Len(r.nodes) => RanksBefore(g, r.nodes[k], r.nodes[k + 1])
        \* and every node left out ranks after every node retained
        /\ \A i \in others :
              g.nodes[i].id \notin kept =>
                  \A k \in 2..Len(r.nodes) : RanksBefore(g, r.nodes[k], g.nodes[i])
        \* the edges are the input edges between retained nodes, in order
        /\ Len(r.edges) = Cardinality(keptIdx)
        /\ \A k \in 1..Len(r.edges) :
              r.edges[k] = g.edges[CHOOSE i \in keptIdx :
                                      Cardinality({ j \in keptIdx : j <= i }) = k]

\* C5 as stated: for every cap C with N > C the result is the subgraph induced
\* by the program node and the first C-1 other nodes in descending score order
\* (no profile counts as 0, ties keep their order), with exactly C nodes.
C5_AsStated ==
    Filtered =>
        (Len(graph[1].nodes) > config.maxNodesInGraph =>
            C5_InducedTopSubgraph(graph[1], filteredGraph[1], config.maxNodesInGraph))

\* C5 amended: the same, for every cap C >= 1 with N > C.
C5_Amended ==
    Filtered =>
        (/\ config.maxNodesInGraph >= 1
         /\ Len(graph[1].nodes) > config.maxNodesInGraph
         => C5_InducedTopSubgraph(graph[1], filteredGraph[1], config.maxNodesInGraph))

C5_Witness ==
    /\ Filtered
    /\ config.maxNodesInGraph = 2
    /\ Len(graph[1].nodes) >= 4
    /\ NodeScore(graph[1].nodes[2]) < NodeScore(graph[1].nodes[3])
    /\ NodeScore(graph[1].nodes[3]) = NodeScore(graph[1].nodes[4])
    /\ filteredGraph[1].nodes[2] = graph[1].nodes[3]
    /\ Len(graph[1].edges) = 2
    /\ Len(filteredGraph[1].edges) = 1

----------------------------------------------------------------------------
(* Claims about a whole scan (Spec) *)

\* C6: in every ScanResult, every authority edge of the authority list has an
\* account address that is the id of a node of the result's (filtered) graph.
C6_AuthorityAccountsInGraph ==
    scanResult # << >> =>
        \A i \in 1..Len(scanResult[1].authorities) :
            scanResult[1].authorities[i].account \in NodeIds(scanResult[1].graph.nodes)

\* C7: filtering changes the presentation graph only: the profiles, summary
\* and authority list of the ScanResult are those computed from the accounts,
\* whatever the cap, and the graph handed to the filter is still the graph
\* that was built (same nodes in the same order, same edges).
C7_FilterOnlyPresentation ==
    scanResult # << >> =>
        LET profiles == analyzeAccounts(Detector, enrichedAccounts, minRentExemption)
            auths == buildAuthorityRelationships(ProgramId, enrichedAccounts)
        IN  /\ scanResult[1].accounts = profiles
            /\ scanResult[1].summary = generateSummary(profiles)
            /\ scanResult[1].authorities = auths
            /\ Len(scanResult[1].accounts) = Len(enrichedAccounts)
            /\ graph[1] = buildGraph(ProgramId, currentSlot, enrichedAccounts, profiles, auths)

C7_Witness ==
    /\ scanResult # << >>
    /\ Len(scanResult[1].graph.nodes) < Len(graph[1].nodes)
    /\ Len(graph[1].nodes) = 3
    /\ NodeScore(graph[1].nodes[2]) < NodeScore(graph[1].nodes[3])
    /\ Len(scanResult[1].accounts) = 2
    /\ Len(scanResult[1].authorities) >= 2

\* C10: when the ledger-position lookup or the account listing fails, the scan
\* aborts: nothing is classified, looked up, scored or assembled, no ScanResult
\* and no report exist, and the error is what the catch block received.
C10_PrerequisiteFailureAborts ==
    (failure = << "getCurrentSlot" >> \/ failure = << "getProgramAccounts" >>) =>
        /\ pc = "exit1"
        /\ accounts = << >>
        /\ activities = << >>
        /\ enrichedAccounts = << >>
        /\ riskProfiles = << >>
        /\ authorities = << >>
        /\ graph = << >>
        /\ filteredGraph = << >>
        /\ summary = << >>
        /\ scanResult = << >>
        /\ report = << >>

C10_Witness ==
    /\ pc = "exit1"
    /\ failure = << "getProgramAccounts" >>
    /\ currentSlot = MaxSlot
    /\ report = << >>

----------------------------------------------------------------------------
(* Claims about the authority tracker (SpecLegacy, SpecChains) *)

\* C8: detectLegacyAuthorities returns exactly the edges whose authority is no
\* account of the set and is not the program, in their original order; an edge
\* whose authority is the program is never returned.
C8_LegacyExactly ==
    legacyAuthorities # << >> =>
        LET result == legacyAuthorities[1]
            idx == { i \in 1..Len(authorities) :
                        /\ \A j \in 1..Len(enrichedAccounts) :
                              enrichedAccounts[j].pubkey # authorities[i].authority
                        /\ authorities[i].authority # ProgramId }
        IN  /\ Len(result) = Cardinality(idx)
            /\ \A k \in 1..Len(result) :
                  result[k] = authorities[CHOOSE i \in idx :
                                             Cardinality({ j \in idx : j <= i }) = k]
            /\ \A k \in 1..Len(result) : result[k].authority # ProgramId

C8_Witness ==
    /\ legacyAuthorities # << >>
    /\ Len(authorities) = 3
    /\ authorities[1].authority = External
    /\ authorities[2].authority = ProgramId
    /\ authorities[3].authority = "A2"
    /\ \A j \in 1..Len(enrichedAccounts) : enrichedAccounts[j].pubkey \notin {ProgramId, "A2"}
    /\ Len(legacyAuthorities[1]) = 2

OwnerLink(a, b) ==
    \E i \in 1..Len(authorities) :
        /\ authorities[i].account = a
        /\ authorities[i].authority = b
        /\ authorities[i].privilege = "owner"

\* a branch of the exploration from start: follows owner edges, repeats nothing
IsBranch(chain, start, maxDepth) ==
    /\ Len(chain) >= 1
    /\ chain[1] = start
    /\ Len(chain) - 1 <= maxDepth
    /\ \A i \in 1..(Len(chain) - 1) : OwnerLink(chain[i], chain[i + 1])
    /\ \A i, j \in 1..Len(chain) : i # j => chain[i] # chain[j]

\* the branch ends here: depth exhausted, no owner edge, or every next owner
\* is already in the chain
IsTerminal(chain, maxDepth) ==
    LET last == chain[Len(chain)]
    IN  \/ Len(chain) - 1 >= maxDepth
        \/ \A b \in Addr(3) : OwnerLink(last, b) => Includes(chain, b)

Branches(start, maxDepth) ==
    { c \in SeqsUpTo(Addr(3), 3) : IsBranch(c, start, maxDepth) }

\* C9: buildAuthorityChains returns one chain for every branch that
\* terminates, whichever of the three reasons ended it; in particular the
\* result is never empty.
C9_EveryTerminalBranchReturned ==
    chains # << >> =>
        LET c == chains[1]
            InResult(chain) == \E k \in 1..Len(c.result) : c.result[k] = chain
        IN  /\ Len(c.result) >= 1
            /\ \A b \in Branches(c.startAccount, c.maxDepth) :
                  IsTerminal(b, c.maxDepth) => InResult(b)

\* C26: for every start address, every finite owner-edge set, cyclic or not,
\* and every maxDepth >= 0, buildAuthorityChains returns, and every returned
\* chain begins with the start address, contains no address twice, has at most
\* maxDepth + 1 addresses, and links each consecutive pair (a, b) by a
\* relationship with account a, authority b and privilege owner.
C26_ChainsAreSimpleOwnerPaths ==
    pc = "returned" =>
        /\ chains # << >>
        /\ \A k \in 1..Len(chains[1].result) :
              IsBranch(chains[1].result[k], chains[1].startAccount, chains[1].maxDepth)

\* a cycle A1 -> A2 -> A1 with a way out A2 -> A3: the exploration does not
\* come back to A1 and returns the one chain that leaves the cycle
C26_Witness ==
    /\ pc = "returned"
    /\ OwnerLink("A1", "A2") /\ OwnerLink("A2", "A1") /\ OwnerLink("A2", "A3")
    /\ chains[1].startAccount = "A1"
    /\ chains[1].maxDepth = MaxDepth
    /\ chains[1].result = << << "A1", "A2", "A3" >> >>

----------------------------------------------------------------------------
(* Claims about the scan taken lookup by lookup (SpecScan) *)

Answered(a) == a \in DOMAIN rpc.responses
LookupFailed(a) == Answered(a) /\ rpc.responses[a].error
NoActivityFound(a) ==
    Answered(a) /\ ~rpc.responses[a].error /\ rpc.responses[a].signatures = << >>

ProfilesOf(a) ==
    { i \in 1..Len(scanResult[1].accounts) : scanResult[1].accounts[i].pubkey = a }

\* C11: whatever lookups fail, batchGetAccountActivities does not raise and
\* returns a map with an entry for every input address, unknown for each
\* address whose lookup failed or found nothing; the scan goes on to a
\* ScanResult in which each such account carries an inactivity indicator.
C11_LookupFailuresTolerated ==
    /\ (pc = "exit1" /\ \E a \in rpc.issued : LookupFailed(a))
          => failure = << "generateReport" >>
    /\ rpc.phase = "done" =>
          /\ DOMAIN activities = SetOf(rpc.pubkeys)
          /\ \A a \in SetOf(rpc.pubkeys) :
                (LookupFailed(a) \/ NoActivityFound(a)) => activities[a] = Undefined
    /\ pc \in {"generateReport", "done"} =>
          /\ scanResult # << >>
          /\ \A a \in SetOf(rpc.pubkeys) :
                (LookupFailed(a) \/ NoActivityFound(a)) =>
                    /\ ProfilesOf(a) # {}
                    /\ \A i \in ProfilesOf(a) :
                          HasIndicator(scanResult[1].accounts[i], "inactivity")

C11_Witness ==
    /\ pc = "done"
    /\ scanResult # << >>
    /\ LookupFailed("A1")
    /\ NoActivityFound("A2")

RECURSIVE Concat(_, _)
\* the batches from the j-th on, laid end to end
Concat(batches, j) ==
    IF j > Len(batches) THEN << >> ELSE batches[j] \o Concat(batches, j + 1)

BatchesCreated == rpc.phase \in {"for", "await", "delay", "done"}

StageOf(at) ==
    CASE at = "getCurrentSlot" -> 1
      [] at = "getProgramAccounts" -> 2
      [] at = "batchAnalyzePDAs" -> 3
      [] at = "batchGetAccountActivities" -> 4
      [] at \in {"enrich", "analyzeAccounts"} -> 5
      [] at = "buildAuthorityRelationships" -> 6
      [] at = "buildGraph" -> 7
      [] at = "filterGraph" -> 8
      [] at = "generateSummary" -> 9
      [] at = "scanResult" -> 10
      [] at \in {"generateReport", "done"} -> 11
      [] OTHER -> 0

ClassifiedAll ==
    /\ pda.pending = {}
    /\ Len(accounts) = Len(rawAccounts)
    /\ \A i \in 1..Len(accounts) : accounts[i].pubkey = rawAccounts[i].pubkey

LookedUpAll ==
    /\ rpc.phase = "done"
    /\ rpc.inflight = {}
    /\ Pubkeys(accounts) \subseteq DOMAIN activities

C13_Step ==
    /\ pc' # "exit1" => StageOf(pc') \in {StageOf(pc), StageOf(pc) + 1}
    /\ currentSlot' # currentSlot => StageOf(pc) = 1
    /\ rawAccounts' # rawAccounts => StageOf(pc) = 2 /\ currentSlot # Undefined
    /\ (pda'.phase = "pending" \/ accounts' # accounts) => StageOf(pc) = 3
    /\ rpc'.issued # rpc.issued => StageOf(pc) = 4 /\ ClassifiedAll
    /\ (enrichedAccounts' # enrichedAccounts \/ riskProfiles' # riskProfiles) =>
          StageOf(pc) = 5 /\ ClassifiedAll /\ LookedUpAll
    /\ authorities' # authorities =>
          StageOf(pc) = 6 /\ Len(riskProfiles) = Len(rawAccounts)
    /\ (graph' # graph /\ graph = << >>) => StageOf(pc) = 7
    /\ filteredGraph' # filteredGraph => StageOf(pc) = 8 /\ graph # << >>
    /\ summary' # summary => StageOf(pc) = 9 /\ filteredGraph # << >>
    /\ scanResult' # scanResult => StageOf(pc) = 10 /\ summary # << >>

\* C13: the stages of a scan run in the order ledger position, account
\* listing, classification, activity lookup, scoring, authority mapping, graph
\* assembly, graph filtering, summary, ScanResult, and no operation of a stage
\* starts for any account before the stage before it is complete for all.
C13_StagesInOrder == [][C13_Step]_vars

C13_Witness ==
    /\ pc = "done"
    /\ Len(rawAccounts) >= 2
    /\ Len(scanResult[1].accounts) = Len(rawAccounts)
    /\ rpc.phase = "done"

ClassificationJoined == StageOf(pc) >= 4 \/ failure = << "generateReport" >>

\* C14: whatever the order in which the classifications and the lookups of a
\* batch complete, the classified list is in input order with each entry
\* computed from its own account, and the activity map holds for each address
\* the result of that address's own lookup.
C14_InterleavingIndependent ==
    /\ \A i \in DOMAIN pda.results : pda.results[i] = analyzePDA(rawAccounts[i])
    /\ ClassificationJoined =>
          /\ Len(accounts) = Len(rawAccounts)
          /\ \A i \in 1..Len(accounts) : accounts[i] = analyzePDA(rawAccounts[i])
    /\ \A a \in DOMAIN rpc.batchResults :
          rpc.batchResults[a] = getAccountLastActivity(rpc.responses[a])
    /\ \A a \in DOMAIN activities :
          /\ Answered(a)
          /\ activities[a] = getAccountLastActivity(rpc.responses[a])
    /\ \A i \in 1..Len(enrichedAccounts) :
          enrichedAccounts[i].lastWriteSlot =
              getAccountLastActivity(rpc.responses[rawAccounts[i].pubkey])

\* the second account was classified before the first, and of two lookups of
\* one batch one threw and the other found a signature
C14_Witness ==
    /\ pc = "analyzeAccounts"
    /\ pda.order = << 2, 1 >>
    /\ accounts[1].isPDA # accounts[2].isPDA
    /\ Len(rpc.batches) = 1
    /\ LookupFailed(accounts[1].pubkey)
    /\ activities[accounts[2].pubkey] = MaxSlot

\* C15: a lookup that fails is tried again, retryAttempts times at most, with
\* the delay between tries; the activity of an address is unknown because of
\* failures only after those tries are used up.
C15_UnknownOnlyAfterRetries ==
    \A a \in rpc.issued :
        /\ rpc.attempts[a] <= 1 + config.retryAttempts
        /\ (LookupFailed(a) /\ a \in DOMAIN activities /\ activities[a] = Undefined)
              => rpc.attempts[a] = 1 + config.retryAttempts

\* a weight outside [0, 1] or thresholds that do not ascend
Malformed(cfg) ==
    \/ \E f \in DOMAIN cfg.weights : cfg.weights[f] < 0 \/ cfg.weights[f] > 100
    \/ ~(/\ cfg.thresholds.low <= cfg.thresholds.medium
         /\ cfg.thresholds.medium <= cfg.thresholds.high
         /\ cfg.thresholds.high <= cfg.thresholds.critical)

\* C16: a configuration with a malformed or out-of-range weight or threshold is
\* found at the start of the scan, which aborts before any account is fetched
\* or scored.
C16_MalformedConfigAborts ==
    Malformed(config) =>
        /\ StageOf(pc) <= 2
        /\ rawAccounts = << >>
        /\ riskProfiles = << >>

----------------------------------------------------------------------------
(* Claims about the classifier (SpecClassify) *)

\* the (label, bump) pairs of the catalogue whose program-derived address,
\* createProgramAddress([label, [bump]], program), is the address a
DerivedFrom ==
    [a \in Addr(5) |->
        { lb \in SetOf(commonSeeds) \X (0..255) :
            createProgramAddress(lb[1], << lb[2] >>) = << a >> }]

Classified == pc = "batchGetAccountActivities" /\ Len(accounts) = Len(rawAccounts)

\* C17: for every label of the catalogue and every bump in 0..255, an address
\* off the curve that is the program-derived address of [label, bump] is
\* classified with isPDA = true, seeds = [label] and that bump.
C17_SeedRoundTrip ==
    Classified =>
        \A i \in 1..Len(accounts) :
            \A lb \in DerivedFrom[accounts[i].pubkey] :
                /\ accounts[i].isPDA
                /\ accounts[i].seeds = << << lb[1] >> >>
                /\ accounts[i].bump = lb[2]

----------------------------------------------------------------------------
(* Claims about the report (SpecReport) *)

Reported == pc = "reported" /\ report # << >>

\* the profiles that appear in the written report
RenderedProfiles(r) ==
    IF r.json # << >> THEN SetOf(r.json[1].accounts)
    ELSE SetOf(r.markdown[1].criticalAccounts) \cup SetOf(r.markdown[1].highRiskAccounts)

\* C18: with a minimum risk level L the written report, json or markdown,
\* includes a risk profile exactly when its level is at or above L in the
\* order Low < Medium < High < Critical.
C18_MinimumRiskLevelFilters ==
    Reported =>
        \A p \in SetOf(scanResult[1].accounts) :
            p \in RenderedProfiles(report[1])
                <=> indexOf(riskOrder, p.riskLevel)
                      >= indexOf(riskOrder, report[1].config.minimumRiskLevel[1])

----------------------------------------------------------------------------
(* More claims about the scorer (SpecScore) *)

WeightValues == { 0 - 30, 0 - 20, 0, 20, 25, 30, 100, 101 }

\* the score of the account under the configuration with one weight replaced
ScoreWith(account, field, w) ==
    generateRiskProfile(
        GhostDetector(currentSlot, config.inactiveSlots,
                      [config.weights EXCEPT ![field] = w], config.thresholds),
        account, minRentExemption).confidenceScore

\* C19: with the account and the rest of the configuration fixed, raising one
\* weight never lowers the score, which is min(100, sum of the weights of the
\* emitted indicators).
C19_MonotoneInWeights ==
    Scored => \A i \in 1..Len(riskProfiles) :
        /\ riskProfiles[i].confidenceScore
              = Min(100 * Scale, SumWeights(riskProfiles[i].indicators))
        /\ \A field \in DOMAIN config.weights : \A w \in WeightValues :
              w >= config.weights[field] =>
                  ScoreWith(enrichedAccounts[i], field, w) >= riskProfiles[i].confidenceScore

\* three indicators below the cap, and a rise of one weight that lifts the
\* score up to the cap
C19_Witness ==
    /\ Scored
    /\ \E i \in 1..Len(riskProfiles) :
          /\ Len(riskProfiles[i].indicators) = 3
          /\ riskProfiles[i].confidenceScore > 0
          /\ riskProfiles[i].confidenceScore < 100 * Scale
          /\ SumWeights(riskProfiles[i].indicators) = riskProfiles[i].confidenceScore
          /\ ScoreWith(enrichedAccounts[i], "inactivity", 101) = 100 * Scale

\* C20: the inactivity indicator is emitted exactly when the last activity is
\* unknown or lies more than the threshold behind the current position; a known
\* position within the threshold, slot 0 included, gets none.
C20_InactivityExactly ==
    Scored => \A i \in 1..Len(riskProfiles) :
        HasIndicator(riskProfiles[i], "inactivity")
            <=> \/ enrichedAccounts[i].lastWriteSlot = Undefined
                \/ currentSlot - enrichedAccounts[i].lastWriteSlot > config.inactiveSlots

ThresholdOf(thresholds, level) ==
    CASE level = "Low" -> thresholds.low
      [] level = "Medium" -> thresholds.medium
      [] level = "High" -> thresholds.high
      [] level = "Critical" -> thresholds.critical

\* the highest level whose threshold the score meets, Low when it meets none
HighestMet(thresholds, score) ==
    LET met == { k \in 1..Len(riskOrder) :
                   score >= ThresholdOf(thresholds, riskOrder[k]) * Scale }
    IN  IF met = {} THEN "Low"
        ELSE riskOrder[CHOOSE k \in met : \A j \in met : j <= k]

ScoreValues == { 5 * k * Scale : k \in (0 - 8)..21 }

\* C21: the level of a profile is the highest of Low, Medium, High, Critical
\* whose threshold its score meets, Low below the lowest threshold, and a
\* higher score never gets a lower level.
C21_HighestThresholdMet ==
    Scored => \A i \in 1..Len(riskProfiles) :
        LET score == riskProfiles[i].confidenceScore
            level == riskProfiles[i].riskLevel
        IN  /\ level = HighestMet(config.thresholds, score)
            /\ \A s \in ScoreValues :
                  /\ determineRiskLevel(Detector, s) = HighestMet(config.thresholds, s)
                  /\ s >= score =>
                        indexOf(riskOrder, determineRiskLevel(Detector, s))
                            >= indexOf(riskOrder, level)
                  /\ s <= score =>
                        indexOf(riskOrder, determineRiskLevel(Detector, s))
                            <= indexOf(riskOrder, level)

\* thresholds that do not ascend, and a score that meets critical but neither
\* medium nor high
C21_Witness ==
    /\ Scored
    /\ config.thresholds = DescendingThresholds
    /\ \E i \in 1..Len(riskProfiles) :
          /\ riskProfiles[i].riskLevel = "Critical"
          /\ riskProfiles[i].confidenceScore < config.thresholds.medium * Scale

----------------------------------------------------------------------------
DefaultConfiguration ==
    config.weights = DefaultWeights /\ config.thresholds = DefaultThresholds

indicatorOrder == << "inactivity", "orphaned_pda", "rent_recoverable" >>

\* the types of the indicators are taken from indicatorOrder, each at most
\* once, in that order
InIndicatorOrder(indicators) ==
    /\ \A k \in 1..Len(indicators) : indexOf(indicatorOrder, indicators[k].type) >= 0
    /\ \A k \in 1..(Len(indicators) - 1) :
          indexOf(indicatorOrder, indicators[k].type)
              < indexOf(indicatorOrder, indicators[k + 1].type)

----------------------------------------------------------------------------
(* Claims about the graph builder (SpecGraph) *)

Built == pc = "filterGraph" /\ graph # << >>

Occurrences(xs, x) == Cardinality({ i \in 1..Len(xs) : xs[i] = x })

GraphEdgeUniverse ==
    [source : {ProgramId, External}, target : Addr(2),
     relationship : {"owns", "derived_from", "authority"}, isActive : BOOLEAN]

\* the relationships that are to give an authority edge: those whose authority
\* is not the program, of privilege owner alone when ownerOnly
GivesAuthorityEdge(rel, ownerOnly) ==
    /\ rel.authority # ProgramId
    /\ ownerOnly => rel.privilege = "owner"

\* how often the edge e is to occur in the graph of the accounts and relationships
EdgesDue(e, ownerOnly) ==
    CASE e.relationship = "owns" ->
           IF e.source = ProgramId /\ e.isActive
           THEN Cardinality({ i \in 1..Len(enrichedAccounts) :
                    /\ enrichedAccounts[i].owner = ProgramId
                    /\ enrichedAccounts[i].pubkey = e.target })
           ELSE 0
      [] e.relationship = "derived_from" ->
           IF e.source = ProgramId /\ e.isActive
           THEN Cardinality({ i \in 1..Len(enrichedAccounts) :
                    /\ enrichedAccounts[i].isPDA
                    /\ enrichedAccounts[i].seeds # << >>
                    /\ enrichedAccounts[i].pubkey = e.target })
           ELSE 0
      [] e.relationship = "authority" ->
           Cardinality({ j \in 1..Len(authorities) :
                    /\ GivesAuthorityEdge(authorities[j], ownerOnly)
                    /\ authorities[j].authority = e.source
                    /\ authorities[j].account = e.target
                    /\ authorities[j].isActive = e.isActive })

NodesAsClaimed ==
    LET nodes == graph[1].nodes
    IN  /\ Len(nodes) = 1 + Len(enrichedAccounts)
        /\ nodes[1].type = "program"
        /\ nodes[1].id = ProgramId
        /\ \A i \in 1..Len(enrichedAccounts) :
              /\ nodes[i + 1].type # "program"
              /\ nodes[i + 1].id = enrichedAccounts[i].pubkey
              /\ \A k \in 1..Len(riskProfiles) :
                    riskProfiles[k].pubkey = enrichedAccounts[i].pubkey
                        => nodes[i + 1].riskProfile = << riskProfiles[k] >>
              /\ (\A k \in 1..Len(riskProfiles) :
                    riskProfiles[k].pubkey # enrichedAccounts[i].pubkey)
                        => nodes[i + 1].riskProfile = << >>

EdgesAsClaimed(ownerOnly) ==
    /\ \A k \in 1..Len(graph[1].edges) : graph[1].edges[k] \in GraphEdgeUniverse
    /\ \A e \in GraphEdgeUniverse :
          Occurrences(graph[1].edges, e) = EdgesDue(e, ownerOnly)

----------------------------------------------------------------------------
(* Claims about the authority tracker (SpecAuthority) *)

Related == pc = "buildGraph" /\ graph = << >>

\* the relationships of one privilege recorded for one account
RelationshipsFor(pubkey, privilege) ==
    { k \in 1..Len(authorities) :
        authorities[k].account = pubkey /\ authorities[k].privilege = privilege }

\* C23: buildAuthorityRelationships gives every classified account one owner
\* relationship (authority = its owner) exactly when its owner differs from its
\* own address, and one signer relationship (authority = the program) exactly
\* when it is a PDA whose seeds were recovered; there is no other relationship,
\* and every relationship has isActive = true.
C23_RelationshipsExactly ==
    Related =>
        /\ \A i \in 1..Len(enrichedAccounts) :
              LET a == enrichedAccounts[i]
                  owners == RelationshipsFor(a.pubkey, "owner")
                  signers == RelationshipsFor(a.pubkey, "signer")
              IN  /\ Cardinality(owners) = (IF a.owner # a.pubkey THEN 1 ELSE 0)
                  /\ \A k \in owners : authorities[k].authority = a.owner
                  /\ Cardinality(signers) = (IF a.isPDA /\ a.seeds # << >> THEN 1 ELSE 0)
                  /\ \A k \in signers : authorities[k].authority = ProgramId
        /\ \A k \in 1..Len(authorities) :
              /\ authorities[k].account \in Pubkeys(enrichedAccounts)
              /\ authorities[k].privilege \in {"owner", "signer"}
              /\ authorities[k].isActive = TRUE

\* a self-owned PDA with seeds beside a plain account owned by the program
C23_Witness ==
    /\ Related
    /\ \E i, j \in 1..Len(enrichedAccounts) :
          /\ enrichedAccounts[i].owner = enrichedAccounts[i].pubkey
          /\ enrichedAccounts[i].isPDA /\ enrichedAccounts[i].seeds # << >>
          /\ enrichedAccounts[j].owner = ProgramId
          /\ ~enrichedAccounts[j].isPDA
    /\ Len(authorities) = 2


----------------------------------------------------------------------------
(* Further claims about a whole scan (Spec) *)

\* the authority is neither an account of the scan nor the program
AbsentAuthority(rel) ==
    /\ rel.authority \notin Pubkeys(enrichedAccounts)
    /\ rel.authority # ProgramId

----------------------------------------------------------------------------
(* Claims about the summary (SpecSummary) *)

Summarised == pc = "scanResult" /\ summary # << >>

ProfilesAt(levels) == { i \in 1..Len(riskProfiles) : riskProfiles[i].riskLevel \in levels }

DormantProfiles ==
    { i \in 1..Len(riskProfiles) :
        \E k \in 1..Len(riskProfiles[i].indicators) :
            riskProfiles[i].indicators[k].type = "inactivity" }

RECURSIVE RecoverableOver(_)
RecoverableOver(I) ==
    IF I = {} THEN 0
    ELSE LET i == CHOOSE j \in I : TRUE
         IN  riskProfiles[i].estimatedRecoverableSOL.num + RecoverableOver(I \ {i})

\* C25: generateSummary is a fold over the risk profiles: totalAccounts is their
\* number, activeAccounts the number at level Low, dormantAccounts the number
\* with an inactivity indicator, highRiskAccounts the number at High or
\* Critical, totalRecoverableSOL the sum of their estimatedRecoverableSOL; so
\* activeAccounts + highRiskAccounts + (number at Medium) = totalAccounts.
C25_SummaryIsFold ==
    Summarised =>
        LET s == summary[1]
        IN  /\ s.totalAccounts = Len(riskProfiles)
            /\ s.activeAccounts = Cardinality(ProfilesAt({"Low"}))
            /\ s.dormantAccounts = Cardinality(DormantProfiles)
            /\ s.highRiskAccounts = Cardinality(ProfilesAt({"High", "Critical"}))
            /\ s.totalRecoverableSOL = SOL(RecoverableOver(1..Len(riskProfiles)))
            /\ s.activeAccounts + s.highRiskAccounts + Cardinality(ProfilesAt({"Medium"}))
                  = s.totalAccounts

\* a dormant Low profile beside a dormant High one: dormantAccounts overlaps
\* both other counts
C25_Witness ==
    /\ Summarised
    /\ Len(riskProfiles) = 2
    /\ riskProfiles[1].riskLevel = "Low" /\ 1 \in DormantProfiles
    /\ riskProfiles[2].riskLevel = "High" /\ 2 \in DormantProfiles
    /\ riskProfiles[2].estimatedRecoverableSOL = SOL(TenSOL)
    /\ summary[1].dormantAccounts = 2
    /\ summary[1].activeAccounts = 1
    /\ summary[1].highRiskAccounts = 1


----------------------------------------------------------------------------
(* Further claims about the classifier (SpecClassify) *)

\* the attempts of attemptCommonDerivations and their place in the order tried
Attempts == SetOf(commonSeeds) \X (0..255)
Rank(lb) == indexOf(commonSeeds, lb[1]) * 256 + (255 - lb[2])

\* the attempts whose derived address equals a
MatchesOf ==
    [a \in Addr(5) |->
        { lb \in Attempts : findProgramAddress(lb[1], << lb[2] >>) = << a >> }]

\* the attempts in which findProgramAddress throws
ThrowingAttempts == { lb \in Attempts : findProgramAddress(lb[1], << lb[2] >>) = << >> }

FirstOf(S) == CHOOSE lb \in S : \A o \in S : Rank(lb) <= Rank(o)

\* the attempts made for a classified account before the search returns
AttemptsMade(c) ==
    IF ~c.isPDA THEN {}
    ELSE IF MatchesOf[c.pubkey] = {} THEN Attempts
    ELSE { lb \in Attempts : Rank(lb) <= Rank(FirstOf(MatchesOf[c.pubkey])) }

FirstMatchOrNothing(c) ==
    /\ c.isPDA = (c.pubkey \notin OnCurve)
    /\ c.seeds # << >> =>
          /\ c.isPDA
          /\ c.bump \in 0..255
          /\ MatchesOf[c.pubkey] # {}
          /\ << c.seeds[1][1], c.bump >> = FirstOf(MatchesOf[c.pubkey])
    /\ (~c.isPDA \/ MatchesOf[c.pubkey] = {}) => (c.seeds = << >> /\ c.bump = Undefined)
    /\ (c.seeds = << >>) = (c.bump = Undefined)

----------------------------------------------------------------------------
(* Claims about batchGetAccountActivities (SpecBatchFair) *)

OneLookupPerAddress ==
    /\ rpc.issued = SetOf(rpc.pubkeys)
    /\ \A a \in rpc.issued : rpc.attempts[a] = 1
    /\ DOMAIN rpc.responses = rpc.issued

\* C28: batchGetAccountActivities terminates for every address list and every
\* value of maxAccountsPerBatch, 0 and negative values included, having issued
\* exactly one lookup per input address.
C28_BatchLookupsTerminate ==
    <>(rpc.phase = "done" /\ OneLookupPerAddress)

----------------------------------------------------------------------------
(* Claims about the web UI (SpecUpload) *)

\* the uploader takes the file: its name ends in .json, its text parses, and
\* the parsed value passes the validation
Accepts(file) ==
    /\ file.extension = "json"
    /\ file.content # << >>
    /\ Validates(file.content[1])

\* C30: a scan-result JSON written by the scan command is accepted by the
\* uploader; the Active Accounts figure the dashboard shows for it is the
\* summary's activeAccounts value computed by generateSummary; and the scan
\* result on display never comes from a file that fails the validation.
C30_DashboardShowsActiveAccounts ==
    /\ \A file \in ScanFileSet : Accepts(file)
    /\ ui.scanResult # << >> =>
          /\ \E file \in UploadFileSet : Accepts(file) /\ file.content = ui.scanResult
          /\ Dashboard(ui.scanResult[1]).activeAccounts
                = << generateSummary(ui.scanResult[1].accounts).activeAccounts >>
====
